---- MODULE Spec2Model ----
(***************************************************************************)
(* Model of prefect-auth-proxy: the POST /proxy pipeline (app/routers/     *)
(* proxy.py), the GraphQL authorization rewriter modify_operations and its *)
(* helpers (app/utils.py) and the cache wrapper (app/cache.py).            *)
(*                                                                         *)
(* Python values are tagged records (field t), GraphQL AST nodes are       *)
(* tagged records (field kind).  A GraphQL document is kept as its AST:    *)
(* operation["query"] holds the document that parse() yields and           *)
(* print_ast() prints.  Strings are TLA+ strings; the Python string        *)
(* methods used by the code are the operators StartsWith .. Join below.    *)
(***************************************************************************)
EXTENDS Integers, Sequences, FiniteSets, TLC

(***************************************************************************)
(* Python str methods                                                      *)
(***************************************************************************)
StartsWith(s, p) == Len(p) <= Len(s) /\ SubSeq(s, 1, Len(p)) = p

EndsWith(s, p) == Len(p) <= Len(s) /\ SubSeq(s, Len(s) - Len(p) + 1, Len(s)) = p

\* index of the first occurrence of sub in s, 0 when there is none
IndexOf(s, sub) ==
    LET I == {i \in 1..(Len(s) - Len(sub) + 1) : SubSeq(s, i, i + Len(sub) - 1) = sub}
    IN IF I = {} THEN 0 ELSE CHOOSE i \in I : \A j \in I : i <= j

Contains(s, sub) == IndexOf(s, sub) # 0

RECURSIVE Split(_, _)
Split(s, sep) ==
    LET i == IndexOf(s, sep)
    IN IF i = 0 THEN <<s>>
       ELSE <<SubSeq(s, 1, i - 1)>> \o Split(SubSeq(s, i + Len(sep), Len(s)), sep)

RECURSIVE Join(_, _)
Join(parts, sep) ==
    IF Len(parts) = 0 THEN ""
    ELSE IF Len(parts) = 1 THEN parts[1]
    ELSE parts[1] \o sep \o Join(Tail(parts), sep)

(***************************************************************************)
(* Python values                                                           *)
(***************************************************************************)
PyNone == [t |-> "None"]
PyStr(s) == [t |-> "str", s |-> s]
PyBytes(s) == [t |-> "bytes", s |-> s]
PyInt(i) == [t |-> "int", i |-> i]
PyBool(b) == [t |-> "bool", b |-> b]
PyList(elems) == [t |-> "list", elems |-> elems]
\* a dict keeps its insertion order: a sequence of items
PyItem(key, val) == [key |-> key, val |-> val]
PyDict(items) == [t |-> "dict", items |-> items]
\* what calling an async function without await yields
PyCoroutine == [t |-> "coroutine"]
\* operation has no "variables" key
Absent == [t |-> "absent"]
\* "variables" transported as an embedded JSON string
PyJsonStr(decoded) == [t |-> "jsonstr", decoded |-> decoded]

\* bool(v)
Truthy(v) ==
    CASE v.t = "None" -> FALSE
      [] v.t = "str" -> v.s # ""
      [] v.t = "bytes" -> v.s # ""
      [] v.t = "int" -> v.i # 0
      [] v.t = "bool" -> v.b
      [] v.t = "list" -> Len(v.elems) > 0
      [] v.t = "dict" -> Len(v.items) > 0
      [] OTHER -> TRUE

\* str(v) as an f-string formats it (containers are not printed in full)
Format(v) ==
    CASE v.t = "str" -> v.s
      [] v.t = "None" -> "None"
      [] v.t = "bool" -> IF v.b THEN "True" ELSE "False"
      [] OTHER -> "<" \o v.t \o ">"

HasKey(d, key) == \E i \in 1..Len(d.items) : d.items[i].key = key

GetItem(d, key) ==
    d.items[CHOOSE i \in 1..Len(d.items) : d.items[i].key = key].val

\* d[key] = val
SetItem(d, key, val) ==
    IF HasKey(d, key)
    THEN PyDict([i \in 1..Len(d.items) |->
                    IF d.items[i].key = key THEN PyItem(key, val) ELSE d.items[i]])
    ELSE PyDict(Append(d.items, PyItem(key, val)))

(***************************************************************************)
(* GraphQL AST nodes (graphql-core)                                        *)
(***************************************************************************)
StringValueNode(value) == [kind |-> "StringValue", value |-> value]
NullValueNode == [kind |-> "NullValue"]
VariableNode(name) == [kind |-> "Variable", name |-> name]
ObjectFieldNode(name, value) == [name |-> name, value |-> value]
ObjectValueNode(fields) == [kind |-> "ObjectValue", fields |-> fields]
ListValueNode(values) == [kind |-> "ListValue", values |-> values]
ArgumentNode(name, value) == [name |-> name, value |-> value]
\* selection_set: <<>> when the field has none, else <<names of the sub-fields>>
NoSelectionSet == <<>>
SelectionSet(names) == <<names>>
FieldNode(name, arguments, selection_set) ==
    [name |-> name, arguments |-> arguments, selection_set |-> selection_set]
OperationDefinitionNode(operation, selections) ==
    [kind |-> "OperationDefinition", operation |-> operation, selections |-> selections]
FragmentDefinitionNode == [kind |-> "FragmentDefinition"]
DocumentNode(definitions) == [definitions |-> definitions]

(***************************************************************************)
(* Outcomes of code that returns a value or raises                         *)
(***************************************************************************)
NoHit == [status |-> "none"]
Hit(v) == [status |-> "found", value |-> v]
Raised == [status |-> "raised"]

RECURSIVE FirstOutcome(_)
FirstOutcome(outs) ==
    IF Len(outs) = 0 THEN NoHit
    ELSE IF Head(outs).status # "none" THEN Head(outs)
    ELSE FirstOutcome(Tail(outs))

\* variables[name]: KeyError when unbound, TypeError when variables is no dict
Lookup(variables, name) ==
    IF variables.t = "dict" /\ HasKey(variables, name)
    THEN Hit(GetItem(variables, name))
    ELSE Raised

\* "if isinstance(v, StringValueNode): return v.value
\*  elif isinstance(v, VariableNode): return variables[v.name.value]"
NodeValue(node, variables) ==
    IF node.kind = "StringValue" THEN Hit(PyStr(node.value))
    ELSE IF node.kind = "Variable" THEN Lookup(variables, node.name)
    ELSE NoHit

\* index of the first field (or argument) with that name, 0 when there is none
FieldIndex(fields, name) ==
    LET I == {i \in 1..Len(fields) : fields[i].name = name}
    IN IF I = {} THEN 0 ELSE CHOOSE i \in I : \A j \in I : i <= j

(***************************************************************************)
(* where-clause injection                                                  *)
(***************************************************************************)
\* The parameter is the value bound to the where variable.
add_id_argument_to_where_variable(variables, tenant_id) ==
    IF variables.t # "dict" THEN Raised
    ELSE IF HasKey(variables, "tenant_id")
    THEN LET cur == GetItem(variables, "tenant_id")
         IN IF cur.t # "dict" THEN Raised
            ELSE Hit(SetItem(variables, "tenant_id",
                             SetItem(cur, "_eq", PyStr(tenant_id))))
    ELSE Hit(SetItem(variables, "tenant_id",
                     PyDict(<<PyItem("_eq", PyStr(tenant_id))>>)))

add_id_argument_to_where_value_node(where_node, variables, tenant_id) ==
    LET ok(w, v) == [status |-> "found", where_node |-> w, variables |-> v]
        new_eq == ObjectFieldNode("_eq", StringValueNode(tenant_id))
        \* "if tenant_id_eq_exists": the value of the _eq field is overwritten
        eq_exists(ni, ei, value) ==
            IF value.kind = "StringValue"
            THEN ok([where_node EXCEPT
                       !.fields[ni].value.fields[ei].value.value = tenant_id],
                    variables)
            ELSE IF value.kind = "Variable"
            THEN IF variables.t = "dict"
                 THEN ok(where_node, SetItem(variables, value.name, PyStr(tenant_id)))
                 ELSE Raised
            ELSE ok(where_node, variables)
        \* "if tenant_id_exists": name_field is the tenant_id field
        tenant_id_exists(ni, name_field, ei) ==
            IF ei # 0
            THEN eq_exists(ni, ei, name_field.value.fields[ei].value)
            ELSE ok([where_node EXCEPT !.fields[ni].value.fields =
                        Append(name_field.value.fields, new_eq)],
                    variables)
        of(ni) ==
            IF ni # 0
            THEN IF where_node.fields[ni].value.kind # "ObjectValue" THEN Raised
                 ELSE tenant_id_exists(ni, where_node.fields[ni],
                          FieldIndex(where_node.fields[ni].value.fields, "_eq"))
            ELSE ok([where_node EXCEPT !.fields =
                        Append(where_node.fields,
                               ObjectFieldNode("tenant_id", ObjectValueNode(<<new_eq>>)))],
                    variables)
    IN of(FieldIndex(where_node.fields, "tenant_id"))

build_where_argument(tenant_id) ==
    ArgumentNode("where",
        ObjectValueNode(<<ObjectFieldNode("tenant_id",
            ObjectValueNode(<<ObjectFieldNode("_eq", StringValueNode(tenant_id))>>))>>))

(***************************************************************************)
(* The upstream GraphQL backend, as the Belonging Oracle sees it           *)
(***************************************************************************)
\* rows of the upstream: <<entity, id, tenant_id>>
UpstreamRows ==
    { <<"flow", "f1", "t1">>, <<"flow", "f2", "t2">>, <<"flow_group", "g1", "t1">>,
      <<"flow_run", "r1", "t1">>, <<"flow_run", "r2", "t2">>,
      <<"task_run", "tr1", "t1">>, <<"task_run", "tr2", "t2">>,
      <<"project", "p1", "t1">>, <<"project", "p2", "t2">> }

\* how the upstream answers a probe: fine, a non-200 status, or an errors field
UpstreamModes == {"ok", "http_error", "graphql_errors"}

\* the response to  query { {entity}_by_pk(id: "{id}") { tenant_id } }
UpstreamByPk(mode, entity, id) ==
    LET rows == {r \in UpstreamRows : r[1] = entity /\ r[2] = id}
    IN [status_code |-> IF mode = "http_error" THEN 500 ELSE 200,
        errors |-> (mode = "graphql_errors"),
        row |-> IF rows = {} THEN PyNone ELSE PyStr((CHOOSE r \in rows : TRUE)[3])]

(***************************************************************************)
(* Belonging Oracle                                                        *)
(***************************************************************************)
\* cache.get(cache_key) and cache.set(cache_key, ...) are called without await
\* here: the call yields a coroutine object and the cache is neither read nor
\* written.  ret is the value returned, probed tells whether the upstream was
\* asked, stored whether a value reached the cache.
check_if_entity_belongs_to_tenant(entity, id, tenant_id, mode) ==
    LET cache_key == Format(entity) \o "-" \o Format(id) \o "__tenant-" \o tenant_id
        cache_value == PyCoroutine
        response == UpstreamByPk(mode, Format(entity), Format(id))
        call == [entity |-> entity, id |-> id, tenant_id |-> tenant_id,
                 cache_key |-> cache_key, mode |-> mode, stored |-> FALSE]
        \* "cache.set(cache_key, b); return b": the set is not awaited
        answer(b) == call @@ [ret |-> PyBool(b), probed |-> TRUE]
    IN IF cache_value.t # "None"
       THEN call @@ [ret |-> cache_value, probed |-> FALSE]
       ELSE IF response.status_code # 200 THEN answer(FALSE)
       ELSE IF response.errors THEN answer(FALSE)
       ELSE IF ~Truthy(response.row) THEN answer(FALSE)
       ELSE IF response.row.s # tenant_id THEN answer(FALSE)
       ELSE answer(TRUE)

(***************************************************************************)
(* Selection names                                                         *)
(***************************************************************************)
\* mode is <<>> for None
split_operation_entity_mode(selection_name) ==
    LET by(operation, by_parts) ==
            [action |-> operation,
             entity |-> by_parts[1],
             mode |-> IF Len(by_parts) = 2 THEN <<by_parts[2]>> ELSE <<>>]
        of(parts, tmp_parts) ==
            IF parts[1] = "get" /\ Len(tmp_parts) = 2
            THEN by("get_or_create", Split(tmp_parts[2], "_by_"))
            ELSE by(parts[1], Split(Join(Tail(parts), "_"), "_by_"))
    IN of(Split(selection_name, "_"), Split(selection_name, "get_or_create"))

map_entity_name(entity_name) ==
    IF StartsWith(entity_name, "_task_run") THEN PyStr("task_run")
    ELSE IF StartsWith(entity_name, "agent") THEN PyStr("agent")
    ELSE IF StartsWith(entity_name, "cloud_hook") THEN PyStr("cloud_hook")
    ELSE IF StartsWith(entity_name, "edge") THEN PyStr("edge")
    ELSE IF StartsWith(entity_name, "flow")
         THEN IF StartsWith(entity_name, "flow_group") THEN PyStr("flow_group")
              ELSE IF StartsWith(entity_name, "flow_run") THEN PyStr("flow_run")
              ELSE PyStr("flow")
    ELSE IF StartsWith(entity_name, "log") THEN PyStr("log")
    ELSE IF StartsWith(entity_name, "message") THEN PyStr("message")
    ELSE IF StartsWith(entity_name, "project") THEN PyStr("project")
    ELSE IF StartsWith(entity_name, "run") THEN PyStr("flow_run")
    ELSE IF StartsWith(entity_name, "schedule") THEN PyStr("flow")
    ELSE IF StartsWith(entity_name, "task") THEN PyStr("task")
    ELSE IF StartsWith(entity_name, "tenant") THEN PyStr("tenant")
    ELSE IF StartsWith(entity_name, "utility") THEN PyStr("task")
    ELSE PyNone

(***************************************************************************)
(* Identifier extraction                                                   *)
(***************************************************************************)
NoIds == [status |-> "found", entities |-> <<>>, ids |-> <<>>]

\* entities.extend(_entities); ids.extend(_ids), unless one of the two raised
Extend(a, b) ==
    IF a.status = "raised" \/ b.status = "raised" THEN Raised
    ELSE [status |-> "found", entities |-> a.entities \o b.entities, ids |-> a.ids \o b.ids]

RECURSIVE EntitiesAndIdsOfFields(_, _)
EntitiesAndIdsOfFields(fields, variables) ==
    LET one(field, v) ==
            IF v.status = "raised" THEN Raised
            ELSE [status |-> "found", entities |-> <<Split(field.name, "_id")[1]>>,
                  ids |-> <<v.value>>]
        this(field) ==
            IF ~EndsWith(field.name, "id") THEN NoIds
            ELSE IF field.value.kind = "StringValue"
            THEN one(field, Hit(PyStr(field.value.value)))
            ELSE IF field.value.kind = "Variable"
            THEN one(field, Lookup(variables, field.value.name))
            ELSE NoIds
    IN IF Len(fields) = 0 THEN NoIds
       ELSE Extend(this(Head(fields)), EntitiesAndIdsOfFields(Tail(fields), variables))

\* raises AttributeError when the node has no fields
get_entities_and_ids_from_object_value_node(object_value_node, variables) ==
    IF object_value_node.kind # "ObjectValue" THEN Raised
    ELSE EntitiesAndIdsOfFields(object_value_node.fields, variables)

RECURSIVE EntitiesAndIdsOfItems(_)
EntitiesAndIdsOfItems(items) ==
    LET this(item) ==
            IF EndsWith(item.key, "id")
            THEN [status |-> "found", entities |-> <<Split(item.key, "_id")[1]>>,
                  ids |-> <<item.val>>]
            ELSE NoIds
    IN IF Len(items) = 0 THEN NoIds
       ELSE Extend(this(Head(items)), EntitiesAndIdsOfItems(Tail(items)))

\* defined for an input variable bound to a dict; anything else raises here
get_entities_and_ids_from_variable_node(variable_node, variables) ==
    LET of(v) ==
            IF v.status = "raised" THEN Raised
            ELSE IF v.value.t # "dict" THEN Raised
            ELSE EntitiesAndIdsOfItems(v.value.items)
    IN of(Lookup(variables, variable_node.name))

get_entities_and_ids_from_input(selection, variables) ==
    LET of(argument) ==
            IF argument.value.kind = "ObjectValue"
            THEN get_entities_and_ids_from_object_value_node(argument.value, variables)
            ELSE IF argument.value.kind = "Variable"
            THEN get_entities_and_ids_from_variable_node(argument.value, variables)
            ELSE Raised
        at(i) == IF i = 0 THEN NoIds ELSE of(selection.arguments[i])
    IN at(FieldIndex(selection.arguments, "input"))

RECURSIVE ExtendAll(_)
ExtendAll(results) ==
    IF Len(results) = 0 THEN NoIds
    ELSE IF Head(results).status = "raised" THEN Raised
    ELSE Extend(Head(results), ExtendAll(Tail(results)))

get_entities_and_ids_from_insert(selection, variables) ==
    LET of_arg(arg) ==
            IF arg.name = "objects"
            THEN IF arg.value.kind = "ListValue"
                 THEN ExtendAll([j \in 1..Len(arg.value.values) |->
                        get_entities_and_ids_from_object_value_node(
                            arg.value.values[j], variables)])
                 ELSE Raised
            ELSE IF arg.name = "object" /\ arg.value.kind = "ObjectValue"
            THEN get_entities_and_ids_from_object_value_node(arg.value, variables)
            ELSE NoIds
    IN ExtendAll([i \in 1..Len(selection.arguments) |-> of_arg(selection.arguments[i])])

\* variables[w][field]["_eq"]
EqOf(v) ==
    IF v.t = "dict" /\ HasKey(v, "_eq") THEN Hit(GetItem(v, "_eq")) ELSE Raised

get_entity_id(entity, selection, variables, loosen) ==
    LET name_entity_id == Format(entity) \o "_id"
        arg_name(n) == n \in {name_entity_id, "id"} \/ (loosen /\ EndsWith(n, "_id"))
        field_name(n) == n = name_entity_id \/ (loosen /\ EndsWith(n, "_id"))
        \* fields of an inline where or input object, and of an inline _and
        of_and_field(and_field) ==
            IF field_name(and_field.name) THEN NodeValue(and_field.value, variables)
            ELSE NoHit
        of_where_field(field) ==
            IF field_name(field.name) THEN NodeValue(field.value, variables)
            ELSE IF field.name = "_and"
            THEN IF field.value.kind # "ObjectValue" THEN Raised
                 ELSE FirstOutcome([j \in 1..Len(field.value.fields) |->
                                        of_and_field(field.value.fields[j])])
            ELSE NoHit
        of_input_field(field) ==
            IF field_name(field.name) THEN NodeValue(field.value, variables)
            ELSE NoHit
        \* keys of a where variable, of its _and, and of an input variable
        of_and_key(w_and, item) ==
            IF arg_name(item.key) THEN EqOf(item.val) ELSE NoHit
        \* an element of an _and list: a str that matches indexes the list (TypeError),
        \* anything else has no endswith (AttributeError) when loosen
        of_and_elem(elem) ==
            IF elem.t = "str"
            THEN (IF arg_name(elem.s) THEN Raised ELSE NoHit)
            ELSE IF loosen THEN Raised ELSE NoHit
        of_where_key(item) ==
            IF item.key = "_and"
            THEN IF item.val.t = "dict"
                 THEN FirstOutcome([j \in 1..Len(item.val.items) |->
                                        of_and_key(item.val, item.val.items[j])])
                 ELSE IF item.val.t = "list"
                 THEN FirstOutcome([j \in 1..Len(item.val.elems) |->
                                        of_and_elem(item.val.elems[j])])
                 ELSE Raised
            ELSE IF arg_name(item.key) THEN EqOf(item.val)
            ELSE NoHit
        of_input_key(item) ==
            IF field_name(item.key) THEN Hit(item.val) ELSE NoHit
        \* "for field in variables[...]": the keys of a dict, the characters of a str
        \* (none of them a match); None is not iterable.  No list is bound to a
        \* where or input variable in this model.
        of_where_variable(v) ==
            IF v.status = "raised" THEN Raised
            ELSE IF v.value.t = "str" THEN NoHit
            ELSE IF v.value.t # "dict" THEN Raised
            ELSE FirstOutcome([j \in 1..Len(v.value.items) |->
                                  of_where_key(v.value.items[j])])
        of_input_variable(v) ==
            IF v.status = "raised" THEN Raised
            ELSE IF v.value.t = "str" THEN NoHit
            ELSE IF v.value.t # "dict" THEN Raised
            ELSE FirstOutcome([j \in 1..Len(v.value.items) |->
                                  of_input_key(v.value.items[j])])
        of_arg(arg) ==
            IF arg_name(arg.name) THEN NodeValue(arg.value, variables)
            ELSE IF arg.name = "where"
            THEN IF arg.value.kind = "ObjectValue"
                 THEN FirstOutcome([j \in 1..Len(arg.value.fields) |->
                                        of_where_field(arg.value.fields[j])])
                 ELSE IF arg.value.kind = "Variable"
                 THEN of_where_variable(Lookup(variables, arg.value.name))
                 ELSE NoHit
            ELSE IF arg.name = "input"
            THEN IF arg.value.kind = "ObjectValue"
                 THEN FirstOutcome([j \in 1..Len(arg.value.fields) |->
                                        of_input_field(arg.value.fields[j])])
                 ELSE IF arg.value.kind = "Variable"
                 THEN of_input_variable(Lookup(variables, arg.value.name))
                 ELSE NoHit
            ELSE NoHit
        \* "raise ValueError" when no argument gave an id
        or_raise(found) == IF found.status = "none" THEN Raised ELSE found
    IN IF variables.t = "dict" /\ HasKey(variables, name_entity_id)
       THEN Hit(GetItem(variables, name_entity_id))
       ELSE or_raise(FirstOutcome([i \in 1..Len(selection.arguments) |->
                                      of_arg(selection.arguments[i])]))

\* ids.append(state[key]) for every state of a list bound in variables
RECURSIVE IdsOfStates(_, _)
IdsOfStates(elems, key) ==
    IF Len(elems) = 0 THEN [status |-> "found", ids |-> <<>>]
    ELSE LET state == Head(elems)
             rest == IdsOfStates(Tail(elems), key)
         IN IF state.t = "None" \/ (state.t = "str" /\ Contains(state.s, key)) THEN Raised
            ELSE IF rest.status = "raised" THEN Raised
            ELSE IF state.t = "dict" /\ HasKey(state, key)
            THEN [status |-> "found", ids |-> <<GetItem(state, key)>> \o rest.ids]
            ELSE rest

\* ids.append(ids[entities.index(entity)]) for every object of an inline list
RECURSIVE IdsOfObjects(_, _, _)
IdsOfObjects(values, entity, variables) ==
    LET at(r, I, rest) ==
            IF rest.status = "raised" THEN Raised
            ELSE IF I = {} THEN rest
            ELSE [status |-> "found",
                  ids |-> <<r.ids[CHOOSE i \in I : \A j \in I : i <= j]>> \o rest.ids]
        of(r, rest) ==
            IF r.status = "raised" THEN Raised
            ELSE at(r, {i \in 1..Len(r.entities) : PyStr(r.entities[i]) = entity}, rest)
    IN IF Len(values) = 0 THEN [status |-> "found", ids |-> <<>>]
       ELSE of(get_entities_and_ids_from_object_value_node(Head(values), variables),
               IdsOfObjects(Tail(values), entity, variables))

RECURSIVE ConcatIds(_)
ConcatIds(results) ==
    LET of(this, rest) ==
            IF this.status = "raised" \/ rest.status = "raised" THEN Raised
            ELSE [status |-> "found", ids |-> this.ids \o rest.ids]
    IN IF Len(results) = 0 THEN [status |-> "found", ids |-> <<>>]
       ELSE of(Head(results), ConcatIds(Tail(results)))

\* the ids of input.{list_name}: the loops shared by the two extractors below
IdsOfInputList(list_name, entity, selection, variables) ==
    LET none == [status |-> "found", ids |-> <<>>]
        key == Format(entity) \o "_id"
        of_bound(v) ==
            IF v.status = "raised" THEN Raised
            ELSE IF v.value.t = "list" THEN IdsOfStates(v.value.elems, key)
            ELSE Raised
        of_field(field) ==
            IF field.name # list_name THEN none
            ELSE IF field.value.kind = "ListValue"
            THEN IdsOfObjects(field.value.values, entity, variables)
            ELSE IF field.value.kind = "Variable"
            THEN of_bound(Lookup(variables, field.value.name))
            ELSE none
        of_input(v) ==
            IF v.status = "raised" THEN Raised
            ELSE IF v.value.t # "dict" THEN Raised
            ELSE IF HasKey(v.value, list_name)
            THEN of_bound(Hit(GetItem(v.value, list_name)))
            ELSE none
        of_arg(arg) ==
            IF arg.name # "input" THEN none
            ELSE IF arg.value.kind = "ObjectValue"
            THEN ConcatIds([j \in 1..Len(arg.value.fields) |-> of_field(arg.value.fields[j])])
            ELSE IF arg.value.kind = "Variable"
            THEN of_input(Lookup(variables, arg.value.name))
            ELSE none
    IN ConcatIds([i \in 1..Len(selection.arguments) |-> of_arg(selection.arguments[i])])

get_entity_ids_from_input_states(entity, selection, variables) ==
    IdsOfInputList("states", entity, selection, variables)

get_flow_run_ids_from_write(selection, variables) ==
    IdsOfInputList("logs", PyStr("flow_run"), selection, variables)

(***************************************************************************)
(* modify_operations: what the loop body does with one top-level selection *)
(*                                                                         *)
(* A step yields the selection and operation["variables"] as rewritten,    *)
(* deny (perform_operations = False was executed), brk (the break left the *)
(* loop over the selections) and the Belonging Oracle calls it made.       *)
(***************************************************************************)
Step(selection, variables, deny, brk, calls) ==
    [status |-> "found", selection |-> selection, variables |-> variables,
     deny |-> deny, brk |-> brk, calls |-> calls]

\* "for entity, entity_id in zip(entities, ids): belongs = await check...;
\*  if not belongs: logger.error(f"{entity.capitalize()} ..."); perform_operations =
\*  False; break".  skip holds the entities the loop passes over.
RECURSIVE CheckEach(_, _, _, _, _)
CheckEach(entities, ids, tenant_id, mode, skip) ==
    LET after(belongs, rest) ==
            IF rest.status = "raised" THEN Raised
            ELSE [rest EXCEPT !.calls = <<belongs>> \o rest.calls]
        of(belongs) ==
            IF ~Truthy(belongs.ret)
            THEN IF Head(entities).t = "None" THEN Raised
                 ELSE [status |-> "found", deny |-> TRUE, calls |-> <<belongs>>]
            ELSE after(belongs, CheckEach(Tail(entities), Tail(ids), tenant_id, mode, skip))
    IN IF Len(entities) = 0 \/ Len(ids) = 0
       THEN [status |-> "found", deny |-> FALSE, calls |-> <<>>]
       ELSE IF Head(entities) \in skip
       THEN CheckEach(Tail(entities), Tail(ids), tenant_id, mode, skip)
       ELSE of(check_if_entity_belongs_to_tenant(Head(entities), Head(ids), tenant_id, mode))

PublicQueries == {"hello", "reference_data", "api", "__schema"}

TaskRunQueries == {"mapped_children", "get_task_run_info"}

\* lines 632-658: the where arguments of a generic query, in order
RECURSIVE FilterByTenant(_, _, _, _)
FilterByTenant(arguments, i, variables, tenant_id) ==
    LET \* where is an inline object: the node and the variables as rewritten
        of_node(r) ==
            IF r.status = "raised" THEN Raised
            ELSE FilterByTenant([arguments EXCEPT ![i].value = r.where_node],
                                i + 1, r.variables, tenant_id)
        \* where is a variable: variables[name] as rewritten
        of_value(name, r) ==
            IF r.status = "raised" THEN Raised
            ELSE FilterByTenant(arguments, i + 1, SetItem(variables, name, r.value),
                                tenant_id)
        of_variable(name, w) ==
            IF w.status = "raised" THEN Raised
            ELSE of_value(name, add_id_argument_to_where_variable(w.value, tenant_id))
        of_arg(arg) ==
            IF arg.name # "where"
            THEN FilterByTenant(arguments, i + 1, variables, tenant_id)
            ELSE IF arg.value.kind = "ObjectValue"
            THEN IF variables.t = "absent" THEN Raised
                 ELSE of_node(add_id_argument_to_where_value_node(
                                  arg.value, variables, tenant_id))
            ELSE IF arg.value.kind = "Variable"
            THEN IF variables.t = "absent" THEN Raised
                 ELSE of_variable(arg.value.name, Lookup(variables, arg.value.name))
            ELSE FilterByTenant(arguments, i + 1, variables, tenant_id)
    IN IF i > Len(arguments)
       THEN [status |-> "found", arguments |-> arguments, variables |-> variables]
       ELSE of_arg(arguments[i])

\* Mutation of EnsureId: the selection set is left as the client sent it.
EnsureId_Unchanged(selections) == selections

\* lines 620-629: id is appended to the selection set unless a field id is there
EnsureId(selections) ==
    IF \E j \in 1..Len(selections) : selections[j] = "id"
    THEN selections
    ELSE Append(selections, "id")

\* lines 576-658
QuerySelection(selection, variables, tenant_id, mode) ==
    LET selection_name == selection.name
        unchanged(deny, calls) == Step(selection, variables, deny, deny, calls)
        \* lines 581-592
        task_run(belongs) == unchanged(~Truthy(belongs.ret), <<belongs>>)
        of_task_run_id(task_run_id) ==
            IF task_run_id.status = "raised" THEN Raised
            ELSE task_run(check_if_entity_belongs_to_tenant(
                              PyStr("task_run"), task_run_id.value, tenant_id, mode))
        \* lines 594-615; flow_by_pk asks again with flow_group
        flow_group(first, second) == unchanged(~Truthy(second.ret), <<first, second>>)
        by_pk(entity, entity_id, first) ==
            IF selection_name = "flow_by_pk" /\ ~Truthy(first.ret)
            THEN flow_group(first, check_if_entity_belongs_to_tenant(
                                       PyStr("flow_group"), entity_id, tenant_id, mode))
            ELSE unchanged(~Truthy(first.ret), <<first>>)
        of_entity_id(entity, entity_id) ==
            IF entity_id.status = "raised" THEN Raised
            ELSE by_pk(entity, entity_id.value,
                       check_if_entity_belongs_to_tenant(
                           entity, entity_id.value, tenant_id, mode))
        of_entity(entity) ==
            IF variables.t = "absent" THEN Raised
            ELSE of_entity_id(entity, get_entity_id(entity, selection, variables, FALSE))
        \* lines 617-628
        tenant(selections) ==
            Step([selection EXCEPT !.selection_set = SelectionSet(EnsureId(selections))],
                 variables, FALSE, FALSE, <<>>)
        \* lines 630-658
        filtered(r) ==
            IF r.status = "raised" THEN Raised
            ELSE IF \E j \in 1..Len(selection.arguments) :
                        selection.arguments[j].name = "where"
            THEN Step([selection EXCEPT !.arguments = r.arguments],
                      r.variables, FALSE, FALSE, <<>>)
            ELSE Step([selection EXCEPT !.arguments =
                          Append(selection.arguments, build_where_argument(tenant_id))],
                      variables, FALSE, FALSE, <<>>)
    IN IF selection_name \in PublicQueries THEN unchanged(FALSE, <<>>)
       ELSE IF selection_name \in TaskRunQueries
       THEN IF variables.t = "absent" THEN Raised
            ELSE of_task_run_id(get_entity_id(PyStr("task_run"), selection, variables, FALSE))
       ELSE IF EndsWith(selection_name, "_by_pk")
       THEN IF selection_name = "flow_by_pk" THEN of_entity(PyStr("flow"))
            ELSE of_entity(PyStr(SubSeq(selection_name, 1,
                                        Len(selection_name) - Len("_by_pk"))))
       ELSE IF StartsWith(selection_name, "tenant")
       THEN IF selection.selection_set = NoSelectionSet THEN Raised
            ELSE tenant(selection.selection_set[1])
       ELSE filtered(FilterByTenant(selection.arguments, 1, variables, tenant_id))

\* Mutation of BlockedEntity: cloud_hook is left out of the blocked entities.
BlockedEntity_NoCloudHook(entity) ==
    \/ StartsWith(entity, "project_description")
    \/ StartsWith(entity, "message")
    \/ Contains(entity, "artifact")

\* lines 667-672
BlockedEntity(entity) ==
    \/ StartsWith(entity, "cloud_hook")
    \/ StartsWith(entity, "project_description")
    \/ StartsWith(entity, "message")
    \/ Contains(entity, "artifact")

\* Mutation of InputActions: purge is handled like archive .. register.
InputActions_WithPurge ==
    {"archive", "cancel", "create", "disable", "enable", "get", "register", "purge"}

InputActions == {"archive", "cancel", "create", "disable", "enable", "get", "register"}

\* "if 'tenant' in entities: if ids[entities.index('tenant')] != tenant_id: deny, break
\*  else: check every (entity, id)"
TenantOrEach(selection, variables, entities, ids, tenant_id, mode, skip) ==
    LET checked(each) ==
            IF each.status = "raised" THEN Raised
            ELSE Step(selection, variables, each.deny, FALSE, each.calls)
        of(I) ==
            IF I # {}
            THEN IF ids[CHOOSE i \in I : \A j \in I : i <= j] # PyStr(tenant_id)
                 THEN Step(selection, variables, TRUE, TRUE, <<>>)
                 ELSE Step(selection, variables, FALSE, FALSE, <<>>)
            ELSE checked(CheckEach(entities, ids, tenant_id, mode, skip))
    IN of({i \in 1..Len(entities) : entities[i] = PyStr("tenant")})

\* lines 662-809
MutationSelection(selection, variables, tenant_id, mode) ==
    LET selection_name == selection.name
        same(deny, brk, calls) == Step(selection, variables, deny, brk, calls)
        checked(each) ==
            IF each.status = "raised" THEN Raised
            ELSE same(each.deny, FALSE, each.calls)
        \* "for entity_id in entity_ids" and "for entity, entity_id in zip(entities, ids)"
        check_ids(entity, r) ==
            IF r.status = "raised" THEN Raised
            ELSE checked(CheckEach([j \in 1..Len(r.ids) |-> entity], r.ids,
                                   tenant_id, mode, {}))
        check_zip(r) ==
            IF r.status = "raised" THEN Raised
            ELSE checked(CheckEach([j \in 1..Len(r.entities) |-> PyStr(r.entities[j])],
                                   r.ids, tenant_id, mode, {}))
        one(id) ==
            IF id.status = "raised" THEN Raised
            ELSE [status |-> "found", ids |-> <<id.value>>]
        \* lines 674-693
        delete_set_update(entity) ==
            IF variables.t = "absent" THEN Raised
            ELSE IF EndsWith(selection_name, "states")
            THEN check_ids(entity,
                           get_entity_ids_from_input_states(entity, selection, variables))
            ELSE check_ids(entity, one(get_entity_id(entity, selection, variables, TRUE)))
        \* lines 725-771
        mapped(r) ==
            IF r.status = "raised" THEN Raised
            ELSE TenantOrEach(selection, variables,
                     [j \in 1..Len(r.entities) |-> map_entity_name(r.entities[j])],
                     r.ids, tenant_id, mode, {})
        \* lines 773-792
        unmapped(r) ==
            IF r.status = "raised" THEN Raised
            ELSE TenantOrEach(selection, variables,
                     [j \in 1..Len(r.entities) |-> PyStr(r.entities[j])],
                     r.ids, tenant_id, mode, {PyStr("task")})
        of(split) ==
            IF BlockedEntity(split.entity) THEN same(TRUE, TRUE, <<>>)
            ELSE IF split.action \in {"delete", "set", "update"}
            THEN delete_set_update(map_entity_name(split.entity))
            ELSE IF variables.t = "absent" /\ split.action \in
                        {"insert", "get_or_create", "write"} \cup InputActions
            THEN Raised
            ELSE IF split.action = "insert"
            THEN check_zip(get_entities_and_ids_from_insert(selection, variables))
            ELSE IF split.action \in InputActions
            THEN mapped(get_entities_and_ids_from_input(selection, variables))
            ELSE IF split.action = "get_or_create"
            THEN unmapped(get_entities_and_ids_from_input(selection, variables))
            ELSE IF split.action = "write"
            THEN check_ids(PyStr("flow_run"),
                           get_flow_run_ids_from_write(selection, variables))
            ELSE same(TRUE, TRUE, <<>>)
    IN of(split_operation_entity_mode(selection_name))

\* is_tenant_query parses the printed query again: the document is the AST
is_tenant_query(operation) ==
    /\ operation.has_query
    /\ \E d \in 1..Len(operation.query.definitions) :
          /\ operation.query.definitions[d].kind = "OperationDefinition"
          /\ \E j \in 1..Len(operation.query.definitions[d].selections) :
                operation.query.definitions[d].selections[j].name = "tenant"

(***************************************************************************)
(* Response filter                                                         *)
(***************************************************************************)
\* user.tenants.filter(id=...).exists() reads the membership table; tenants is the
\* membership of the user.  A result without data.tenant raises KeyError.
\* Mutation of FilterRows: every row is kept.
FilterRows_KeepAll(rows, tenants) == rows

RECURSIVE FilterRows(_, _)
FilterRows(rows, tenants) ==
    IF Len(rows) = 0 THEN <<>>
    ELSE IF Head(rows).id \in tenants
    THEN <<Head(rows)>> \o FilterRows(Tail(rows), tenants)
    ELSE FilterRows(Tail(rows), tenants)

filter_tenants(result, tenants) ==
    IF ~result.has_tenant THEN Raised
    ELSE Hit([result EXCEPT !.tenant = FilterRows(result.tenant, tenants)])

(***************************************************************************)
(* Cache (app/cache.py over Redis)                                         *)
(***************************************************************************)
\* Redis keeps what is set as bytes: 1 is stored as b"1"
Encode(value) ==
    CASE value.t = "int" -> (IF value.i = 0 THEN "0" ELSE "1")
      [] value.t = "str" -> value.s
      [] OTHER -> Format(value)

\* The store is the set of <<key, value>> pairs held by Redis.
\* await cache.get(key)
Cache_get(enabled, store, key) ==
    IF enabled /\ \E e \in store : e[1] = key
    THEN PyBytes((CHOOSE e \in store : e[1] = key)[2])
    ELSE PyNone

\* await cache.set(key, value)
Cache_set(enabled, store, key, value) ==
    IF enabled
    THEN {e \in store : e[1] # key} \cup {<<key, Encode(value)>>}
    ELSE store

\* Mutation of Cache_delete: the key stays.
Cache_delete_Keep(enabled, store, key) == store

\* await cache.delete(key)
Cache_delete(enabled, store, key) ==
    IF enabled THEN {e \in store : e[1] # key} ELSE store

\* the serialization of the tenant list kept under user_tenants_{id}
list_to_string(list) == Join(list, ",")

string_to_list(string) == Split(string, ",")

(***************************************************************************)
(* Passwords (app/utils.py)                                                *)
(***************************************************************************)
PASSWORD_HASH_ALGORITHM == "pbkdf2_sha256"

PASSWORD_HASH_NUMBER_OF_ITERATIONS == 60000

\* int(s) for a decimal numeral with an optional sign; anything else raises
\* ValueError
RECURSIVE DigitsValue(_, _)
DigitsValue(s, acc) ==
    LET digit(i) == IF i = 0 THEN Raised
                    ELSE DigitsValue(SubSeq(s, 2, Len(s)), 10 * acc + (i - 1))
    IN IF Len(s) = 0 THEN Hit(acc)
       ELSE digit(IndexOf("0123456789", SubSeq(s, 1, 1)))

int(s) ==
    LET negate(r) == IF r.status = "raised" THEN Raised ELSE Hit(0 - r.value)
    IN IF s = "" \/ s = "-" THEN Raised
       ELSE IF SubSeq(s, 1, 1) = "-" THEN negate(DigitsValue(SubSeq(s, 2, Len(s)), 0))
       ELSE DigitsValue(s, 0)

\* The passwords of the model, in a fixed order.
Passwords == <<"", "secret", "pa$s", "secret2">>

\* Mutation of pbkdf2_hmac: the digest does not depend on the password.
pbkdf2_hmac_AnyPassword(password, salt, iterations) ==
    "any/" \o salt \o "/" \o ToString(iterations)

\* base64.b64encode(hashlib.pbkdf2_hmac("sha256", password, salt, iterations)):
\* a text over the base64 alphabet (which has no "$"), taken to differ whenever
\* the password, the salt or the iteration count differ.  The password enters
\* by its place in Passwords.
pbkdf2_hmac(password, salt, iterations) ==
    ToString(CHOOSE i \in 1..Len(Passwords) : Passwords[i] = password)
        \o "/" \o salt \o "/" \o ToString(iterations)

\* salt "" stands for a salt that is None or empty and iterations 0 for an
\* iteration count that is None or 0: the code tests both with "not".  token_hex
\* is what secrets.token_hex(16) yields.  pbkdf2_hmac raises ValueError on an
\* iteration count below 1.
password_hash(password, salt, iterations, token_hex) ==
    LET of(salt_, iterations_) ==
            IF iterations_ < 1 THEN Raised
            ELSE Hit(PASSWORD_HASH_ALGORITHM \o "$" \o ToString(iterations_) \o "$"
                         \o salt_ \o "$" \o pbkdf2_hmac(password, salt_, iterations_))
    IN of(IF salt = "" THEN token_hex ELSE salt,
          IF iterations = 0 THEN PASSWORD_HASH_NUMBER_OF_ITERATIONS ELSE iterations)

password_verify(password, hashed, token_hex) ==
    LET compared(compare_hash) ==
            IF compare_hash.status = "raised" THEN Raised
            ELSE Hit(hashed = compare_hash.value)
        of(parts, iterations) ==
            IF iterations.status = "raised" THEN Raised
            ELSE IF parts[1] # PASSWORD_HASH_ALGORITHM THEN Raised
            ELSE compared(password_hash(password, parts[3], iterations.value, token_hex))
        split(parts) == of(parts, int(parts[2]))
    IN IF Len(Split(hashed, "$")) - 1 # 3 THEN Hit(FALSE)
       ELSE split(Split(hashed, "$"))

(***************************************************************************)
(* Token validation (app/dependencies.py)                                  *)
(***************************************************************************)
HTTPException(status_code, detail) ==
    [status |-> "http", status_code |-> status_code, detail |-> detail]

\* Mutation of validate_token: a token_expiry is never looked at.
validate_token_NoExpiry(token, table, instant) ==
    LET ids == {u \in DOMAIN table : table[u].token = token}
    IN IF ids = {} THEN HTTPException(401, "Invalid token")
       ELSE IF ~table[CHOOSE u \in ids : TRUE].is_active
       THEN HTTPException(401, "Inactive user")
       ELSE Hit(CHOOSE u \in ids : TRUE)

\* User.get_or_none(token=token) raises MultipleObjectsReturned when two rows
\* carry the token.  The function in app/dependencies.py ends after the third
\* test; that the user is returned to the handler is taken from the
\* specification.
validate_token(token, table, instant) ==
    LET of(user) ==
            IF ~table[user].is_active THEN HTTPException(401, "Inactive user")
            ELSE IF table[user].token_expiry.t # "None"
                    /\ table[user].token_expiry.i < instant
            THEN HTTPException(401, "Expired token")
            ELSE Hit(user)
        matching(ids) ==
            IF ids = {} THEN HTTPException(401, "Invalid token")
            ELSE IF Cardinality(ids) > 1 THEN Raised
            ELSE of(CHOOSE u \in ids : TRUE)
    IN matching({u \in DOMAIN table : table[u].token = token})

\* the admin gate of the /user router
validate_admin(token, table, instant) ==
    LET of(r) ==
            IF r.status # "found" THEN r
            ELSE IF ~table[r.value].is_admin THEN HTTPException(403, "Forbidden")
            ELSE r
    IN of(validate_token(token, table, instant))

(***************************************************************************)
(* The requests of the model                                               *)
(***************************************************************************)
Operation(query, variables) == [has_query |-> TRUE, query |-> query, variables |-> variables]

Query(selections) == DocumentNode(<<OperationDefinitionNode("query", selections)>>)

Mutation(selections) == DocumentNode(<<OperationDefinitionNode("mutation", selections)>>)

NoVariables == PyDict(<<>>)

Eq(value) == ObjectValueNode(<<ObjectFieldNode("_eq", value)>>)

Where(fields) == ArgumentNode("where", ObjectValueNode(fields))

Input(fields) == ArgumentNode("input", ObjectValueNode(fields))

IdName == SelectionSet(<<"id", "name">>)

\* { hello }
OpHello == Operation(Query(<<FieldNode("hello", <<>>, NoSelectionSet)>>), Absent)

\* query { flow { id name } }
OpFlow == Operation(Query(<<FieldNode("flow", <<>>, IdName)>>), NoVariables)

\* query { flow(where: {name: {_eq: "x"}}) { id name } }
OpFlowWhereName ==
    Operation(Query(<<FieldNode("flow",
        <<Where(<<ObjectFieldNode("name", Eq(StringValueNode("x")))>>)>>, IdName)>>),
        NoVariables)

\* the same without a "variables" key
OpFlowWhereNoVariables == [OpFlowWhereName EXCEPT !.variables = Absent]

\* query { flow(where: {tenant_id: {_eq: "t2"}}) { id name } }
OpFlowWhereTenant ==
    Operation(Query(<<FieldNode("flow",
        <<Where(<<ObjectFieldNode("tenant_id", Eq(StringValueNode("t2")))>>)>>, IdName)>>),
        NoVariables)

\* query($t: uuid) { flow(where: {tenant_id: {_eq: $t}}) { id name } }, t = "t2"
OpFlowWhereTenantVar ==
    Operation(Query(<<FieldNode("flow",
        <<Where(<<ObjectFieldNode("tenant_id", Eq(VariableNode("t")))>>)>>, IdName)>>),
        PyDict(<<PyItem("t", PyStr("t2"))>>))

\* query { flow(where: {tenant_id: {_eq: null}}) { id name } }
OpFlowWhereTenantNull ==
    Operation(Query(<<FieldNode("flow",
        <<Where(<<ObjectFieldNode("tenant_id", Eq(NullValueNode))>>)>>, IdName)>>),
        NoVariables)

\* query { flow(where: {tenant_id: {_in: ["t2"]}}) { id name } }
OpFlowWhereTenantIn ==
    Operation(Query(<<FieldNode("flow",
        <<Where(<<ObjectFieldNode("tenant_id", ObjectValueNode(<<ObjectFieldNode("_in",
            ListValueNode(<<StringValueNode("t2")>>))>>))>>)>>, IdName)>>),
        NoVariables)

\* query($w: flow_bool_exp) { flow(where: $w) { id name } }, w = {tenant_id: {_eq: "t2"}}
OpFlowWhereVar ==
    Operation(Query(<<FieldNode("flow",
        <<ArgumentNode("where", VariableNode("w"))>>, IdName)>>),
        PyDict(<<PyItem("w", PyDict(<<PyItem("tenant_id",
            PyDict(<<PyItem("_eq", PyStr("t2"))>>))>>))>>))

\* the same with w = {_and: [{name: {_eq: "x"}}]}, sent as an embedded JSON string
OpFlowWhereVarAnd ==
    Operation(Query(<<FieldNode("flow",
        <<ArgumentNode("where", VariableNode("w"))>>, IdName)>>),
        PyJsonStr(PyDict(<<PyItem("w", PyDict(<<PyItem("_and", PyList(<<
            PyDict(<<PyItem("name", PyDict(<<PyItem("_eq", PyStr("x"))>>))>>)>>))>>))>>)))

\* query { flow(where: null) { id name } }
OpFlowWhereNull ==
    Operation(Query(<<FieldNode("flow",
        <<ArgumentNode("where", NullValueNode)>>, IdName)>>), NoVariables)

\* query { flow_by_pk(id: "f1") { id name } }, and with f2 (of tenant t2), g1 (a flow group)
OpFlowByPk(id) ==
    Operation(Query(<<FieldNode("flow_by_pk",
        <<ArgumentNode("id", StringValueNode(id))>>, IdName)>>), NoVariables)

\* query($id: uuid!) { flow_run_by_pk(id: $id) { id name } }, id = "r1"
OpFlowRunByPk ==
    Operation(Query(<<FieldNode("flow_run_by_pk",
        <<ArgumentNode("id", VariableNode("id"))>>, IdName)>>),
        PyDict(<<PyItem("id", PyStr("r1"))>>))

\* query { get_task_run_info(task_run_id: "tr2") { id } }
OpTaskRunInfo ==
    Operation(Query(<<FieldNode("get_task_run_info",
        <<ArgumentNode("task_run_id", StringValueNode("tr2"))>>,
        SelectionSet(<<"id">>))>>), NoVariables)

\* query { tenant { slug } }
OpTenant == Operation(Query(<<FieldNode("tenant", <<>>, SelectionSet(<<"slug">>))>>), Absent)

\* query { tenant { id slug } flow { id name } }
OpTenantAndFlow ==
    Operation(Query(<<FieldNode("tenant", <<>>, SelectionSet(<<"id", "slug">>)),
                      FieldNode("flow", <<>>, IdName)>>), Absent)

\* query { tenant_aggregate { nodes } }
OpTenantAggregate ==
    Operation(Query(<<FieldNode("tenant_aggregate", <<>>, SelectionSet(<<"nodes">>))>>),
              Absent)

\* mutation { delete_cloud_hook_by_pk(id: "h1") { id } }
OpDeleteCloudHook ==
    Operation(Mutation(<<FieldNode("delete_cloud_hook_by_pk",
        <<ArgumentNode("id", StringValueNode("h1"))>>, SelectionSet(<<"id">>))>>),
        NoVariables)

\* mutation { create_task_run_artifact(input: {task_run_id: "tr1"}) { id } }
OpCreateArtifact ==
    Operation(Mutation(<<FieldNode("create_task_run_artifact",
        <<Input(<<ObjectFieldNode("task_run_id", StringValueNode("tr1"))>>)>>,
        SelectionSet(<<"id">>))>>), NoVariables)

\* mutation { delete_flow(input: {flow_id: "f1"}) { success } }, and with f2
OpDeleteFlow(id) ==
    Operation(Mutation(<<FieldNode("delete_flow",
        <<Input(<<ObjectFieldNode("flow_id", StringValueNode(id))>>)>>,
        SelectionSet(<<"success">>))>>), NoVariables)

\* mutation { create_project(input: {tenant_id: "t1", name: "p"}) { id } }, and with t2
OpCreateProject(tenant) ==
    Operation(Mutation(<<FieldNode("create_project",
        <<Input(<<ObjectFieldNode("tenant_id", StringValueNode(tenant)),
                  ObjectFieldNode("name", StringValueNode("p"))>>)>>,
        SelectionSet(<<"id">>))>>), NoVariables)

\* mutation { purge_flow(input: {flow_id: "f1"}) { success }
\*            delete_flow(input: {flow_id: "f1"}) { success } }
OpPurgeFlow ==
    Operation(Mutation(<<FieldNode("purge_flow",
        <<Input(<<ObjectFieldNode("flow_id", StringValueNode("f1"))>>)>>,
        SelectionSet(<<"success">>)),
        FieldNode("delete_flow",
        <<Input(<<ObjectFieldNode("flow_id", StringValueNode("f1"))>>)>>,
        SelectionSet(<<"success">>))>>), NoVariables)

\* mutation { write_run_logs(input: {logs: [{flow_run_id: "r1", message: "m"}, ...]})
\*            { success } }, one log for each of ids
OpWriteRunLogs(ids) ==
    Operation(Mutation(<<FieldNode("write_run_logs",
        <<Input(<<ObjectFieldNode("logs", ListValueNode(
            [k \in 1..Len(ids) |->
                ObjectValueNode(<<ObjectFieldNode("flow_run_id", StringValueNode(ids[k])),
                                  ObjectFieldNode("message", StringValueNode("m"))>>)]))>>)>>,
        SelectionSet(<<"success">>))>>), NoVariables)

\* the logs of a write_run_logs input, as the variables mapping carries them
Logs(ids) ==
    PyList([k \in 1..Len(ids) |->
               PyDict(<<PyItem("flow_run_id", PyStr(ids[k])), PyItem("message", PyStr("m"))>>)])

\* mutation($logs: [...]) { write_run_logs(input: {logs: $logs}) { success } }
OpWriteRunLogsVar(ids) ==
    Operation(Mutation(<<FieldNode("write_run_logs",
        <<Input(<<ObjectFieldNode("logs", VariableNode("logs"))>>)>>,
        SelectionSet(<<"success">>))>>), PyDict(<<PyItem("logs", Logs(ids))>>))

\* mutation($input: ...) { write_run_logs(input: $input) { success } }
OpWriteRunLogsInputVar(ids) ==
    Operation(Mutation(<<FieldNode("write_run_logs",
        <<ArgumentNode("input", VariableNode("input"))>>,
        SelectionSet(<<"success">>))>>),
        PyDict(<<PyItem("input", PyDict(<<PyItem("logs", Logs(ids))>>))>>))

\* query { flow_by_pk(id: "f2") { id name } } with variables {"flow_id": "f1"}: the
\* selection refers to no variable
OpFlowByPkShadowed ==
    Operation(Query(<<FieldNode("flow_by_pk",
        <<ArgumentNode("id", StringValueNode("f2"))>>, IdName)>>),
        PyDict(<<PyItem("flow_id", PyStr("f1"))>>))

\* mutation { delete_flow(input: {project_id: "p1", flow_id: "f2"}) { success } }
OpDeleteFlowOfProject ==
    Operation(Mutation(<<FieldNode("delete_flow",
        <<Input(<<ObjectFieldNode("project_id", StringValueNode("p1")),
                  ObjectFieldNode("flow_id", StringValueNode("f2"))>>)>>,
        SelectionSet(<<"success">>))>>), NoVariables)

\* subscription { flow { id name } }
OpSubscription ==
    Operation(DocumentNode(<<OperationDefinitionNode("subscription",
        <<FieldNode("flow", <<>>, IdName)>>)>>), NoVariables)

\* an operation object without a "query" key
OpNoQuery == [has_query |-> FALSE, query |-> DocumentNode(<<>>), variables |-> NoVariables]

\* fragment f on flow { id }  query { hello }
OpFragmentAndQuery ==
    Operation(DocumentNode(<<FragmentDefinitionNode,
        OperationDefinitionNode("query", <<FieldNode("hello", <<>>, NoSelectionSet)>>)>>),
        NoVariables)

\* a list of input objects with one id field each, inline
IdObjects(key, ids) ==
    ListValueNode([k \in 1..Len(ids) |->
        ObjectValueNode(<<ObjectFieldNode(key, StringValueNode(ids[k])),
                          ObjectFieldNode("version", StringValueNode("1"))>>)])

\* the same list as the variables mapping carries it
BoundIdObjects(key, ids) ==
    PyList([k \in 1..Len(ids) |->
               PyDict(<<PyItem(key, PyStr(ids[k])), PyItem("version", PyStr("1"))>>)])

\* mutation { set_flow_run_states(input: {states: [{flow_run_id: "r1", version: "1"},
\*            ...]}) { states { id } } } and set_task_run_states with task_run_id
OpSetStates(name, key, ids) ==
    Operation(Mutation(<<FieldNode(name,
        <<Input(<<ObjectFieldNode("states", IdObjects(key, ids))>>)>>,
        SelectionSet(<<"states">>))>>), NoVariables)

\* mutation($input: ...) { set_flow_run_states(input: $input) { states { id } } }
OpSetStatesVar(name, key, ids) ==
    Operation(Mutation(<<FieldNode(name,
        <<ArgumentNode("input", VariableNode("input"))>>,
        SelectionSet(<<"states">>))>>),
        PyDict(<<PyItem("input", PyDict(<<PyItem("states", BoundIdObjects(key, ids))>>))>>))

\* mutation { insert_flow_run(objects: [{flow_id: "f1", version: "1"}, ...]) { id } }
OpInsertFlowRuns(ids) ==
    Operation(Mutation(<<FieldNode("insert_flow_run",
        <<ArgumentNode("objects", IdObjects("flow_id", ids))>>,
        SelectionSet(<<"id">>))>>), NoVariables)

\* mutation($object: ...) { insert_flow_run_one(object: $object) { id } } with
\* variables {"object": {"flow_id": "f2"}}
OpInsertFlowRunVar ==
    Operation(Mutation(<<FieldNode("insert_flow_run_one",
        <<ArgumentNode("object", VariableNode("object"))>>,
        SelectionSet(<<"id">>))>>),
        PyDict(<<PyItem("object", PyDict(<<PyItem("flow_id", PyStr("f2"))>>))>>))

\* mutation { create_flow_run(input: {flow_id: "f1"}) { id } }, and with f2
OpCreateFlowRun(id) ==
    Operation(Mutation(<<FieldNode("create_flow_run",
        <<Input(<<ObjectFieldNode("flow_id", StringValueNode(id))>>)>>,
        SelectionSet(<<"id">>))>>), NoVariables)

\* mutation($input: ...) { create_flow_run(input: $input) { id } } with
\* variables {"input": {"flow_id": "f2"}}
OpCreateFlowRunVar ==
    Operation(Mutation(<<FieldNode("create_flow_run",
        <<ArgumentNode("input", VariableNode("input"))>>,
        SelectionSet(<<"id">>))>>),
        PyDict(<<PyItem("input", PyDict(<<PyItem("flow_id", PyStr("f2"))>>))>>))

\* mutation { delete_widget(input: {widget_id: "w1"}) { success } }: widget is no
\* entity of the canonicalization table; and create_widget
OpOnWidget(name) ==
    Operation(Mutation(<<FieldNode(name,
        <<Input(<<ObjectFieldNode("widget_id", StringValueNode("w1"))>>)>>,
        SelectionSet(<<"success">>))>>), NoVariables)

\* query { tenant { id id slug } }
OpTenantIdTwice ==
    Operation(Query(<<FieldNode("tenant", <<>>, SelectionSet(<<"id", "id", "slug">>))>>),
              NoVariables)

\* mutation { create_flow_run { id } }: no argument at all; and insert_flow_run,
\* write_run_logs, set_flow_run_states
OpNoArguments(name) ==
    Operation(Mutation(<<FieldNode(name, <<>>, SelectionSet(<<"id">>))>>), NoVariables)

\* fragment f on flow { id }
OpFragmentOnly == Operation(DocumentNode(<<FragmentDefinitionNode>>), NoVariables)

Operations ==
    { OpHello, OpFlow, OpFlowWhereName, OpFlowWhereNoVariables, OpFlowWhereTenant,
      OpFlowWhereTenantVar, OpFlowWhereTenantNull, OpFlowWhereTenantIn, OpFlowWhereVar,
      OpFlowWhereVarAnd, OpFlowWhereNull, OpFlowByPk("f1"), OpFlowByPk("f2"),
      OpFlowByPk("g1"), OpFlowRunByPk, OpTaskRunInfo, OpTenant, OpTenantAndFlow,
      OpTenantAggregate, OpDeleteCloudHook, OpCreateArtifact, OpDeleteFlow("f1"),
      OpDeleteFlow("f2"), OpCreateProject("t1"), OpCreateProject("t2"), OpPurgeFlow,
      OpWriteRunLogs(<<"r1">>), OpWriteRunLogs(<<"r1", "r2">>),
      OpWriteRunLogsVar(<<"r2", "r1">>), OpWriteRunLogsInputVar(<<"r1", "r2">>),
      OpSubscription, OpFragmentAndQuery, OpNoQuery }

\* the longest batch of operations in a request body
MaxBatch == 2

SeqsUpTo(S, n) == UNION {[1..k -> S] : k \in 0..n}

\* request bodies: not JSON, one operation object, or a JSON array of operations
Bodies(ops) ==
    {[json_ok |-> FALSE, is_list |-> FALSE, operations |-> <<>>]}
    \cup {[json_ok |-> TRUE, is_list |-> FALSE, operations |-> <<o>>] : o \in ops}
    \cup {[json_ok |-> TRUE, is_list |-> TRUE, operations |-> b] :
             b \in SeqsUpTo(ops, MaxBatch)}

\* request bodies of one operation, as an object or as an array
Singles(ops) ==
    {[json_ok |-> TRUE, is_list |-> l, operations |-> <<o>>] : o \in ops, l \in BOOLEAN}

\* request bodies of one operation, as an object
Objects(ops) ==
    {[json_ok |-> TRUE, is_list |-> FALSE, operations |-> <<o>>] : o \in ops}

\* the operations of the requests that exercise the whole pipeline
PipelineOperations ==
    { OpHello, OpFlow, OpTenant, OpTenantAndFlow, OpTenantAggregate, OpDeleteCloudHook,
      OpSubscription, OpFragmentAndQuery }

\* rows of the tenant table, in its order; "t9" is no tenant
TenantIds == <<"t1", "t2", "t3">>

Users == {"1", "2", "3", "4"}

\* a User row; token_expiry is PyNone or PyInt(instant).  is_admin is read by the
\* routers but is not a field of app/models.py
User(username, password, is_active, token, token_expiry, is_admin) ==
    [username |-> username, password |-> password, is_active |-> is_active,
     token |-> token, token_expiry |-> token_expiry, scopes |-> "*",
     is_admin |-> is_admin]

\* the Authorization bearer tokens of the requests: those of users 1 and 2, of the
\* inactive user 3, of user 4 whose token expires, and one of nobody
Tokens == {"tok1", "tok2", "tok3", "tok4", "tok9"}

\* salts, as secrets.token_hex yields them (hexadecimal text)
Salts == {"ab", "cd"}

\* the User table at the start: an admin, a plain user, an inactive user and a user
\* whose token expires at instant 1
StoredUsers ==
    [u \in Users |->
        CASE u = "1" -> User("alice", password_hash("secret", "ab", 1, "ab").value,
                             TRUE, "tok1", PyNone, TRUE)
          [] u = "2" -> User("bob", password_hash("secret2", "cd", 2, "cd").value,
                             TRUE, "tok2", PyNone, FALSE)
          [] u = "3" -> User("carol", password_hash("pa$s", "ab", 1, "ab").value,
                             FALSE, "tok3", PyNone, FALSE)
          [] OTHER -> User("dave", password_hash("secret", "cd", 1, "cd").value,
                           TRUE, "tok4", PyInt(1), FALSE)]

\* x-prefect-tenant-id: absent, the literal "null", or an id
TenantHeaders == {PyNone, PyStr("null"), PyStr("t1"), PyStr("t3"), PyStr("t9")}

\* one element of the upstream's response body
Row(id, slug) == [id |-> id, slug |-> slug]

\* has_tenant: the element has data.tenant; rest: everything else in the element
ResultElement(rows) == [has_tenant |-> TRUE, rest |-> "extensions", tenant |-> rows]

NoTenantElement == [has_tenant |-> FALSE, rest |-> "flow", tenant |-> <<>>]

ResultElements ==
    {ResultElement(<<Row("t3", "c"), Row("t2", "b"), Row("t1", "a")>>), NoTenantElement}

\* the longest data.tenant list of the responses that exercise the response filter
MaxRows == 2

TenantRows == {Row("t1", "a"), Row("t2", "b"), Row("t3", "c")}

FilterElements ==
    {ResultElement(rows) : rows \in SeqsUpTo(TenantRows, MaxRows)}
    \cup ResultElements

\* what the upstream answers to a POST of n operations: a body that is no JSON, or
\* one element per operation
UpstreamAnswers(elements, is_list, n) ==
    {[status_code |-> 502, json_ok |-> FALSE, is_list |-> FALSE, elems |-> <<>>]}
    \cup {[status_code |-> 200, json_ok |-> TRUE, is_list |-> is_list, elems |-> e] :
             e \in [1..n -> elements]}

(***************************************************************************)
(* State                                                                   *)
(***************************************************************************)
VARIABLES
    cache_enabled,       \* config.CACHE_ENABLE
    redis,               \* the keys of the cache and their values
    tenant_table,        \* Tenant rows (ids)
    user_tenants,        \* the user_tenant relation: user id -> set of tenant ids
    user_table,          \* User rows: id -> row
    now,                 \* pendulum.now(), in instants
    reply,               \* the last response of the /auth and /user routers
    pc,                  \* where the proxy handler is
    request,             \* user, tenant header and body of the request in flight
    tenant_id,           \* proxy: tenant_id
    cache_value,         \* proxy: cache_value
    operations,          \* modify_operations: the operations, rewritten in place
    pos,                 \* modify_operations: operation, definition and selection reached
    ast,                 \* modify_operations: the parsed document of the operation
    perform_operations,  \* modify_operations: perform_operations
    modified_operations, \* modify_operations: modified_operations
    oracle_calls,        \* the Belonging Oracle calls of this request
    trail,               \* the checks this request has passed, in order
    posted,              \* bodies POSTed upstream for the client (proxy.py line 126)
    upstream,            \* the upstream's answer to that POST
    response             \* the response to the client

vars == <<cache_enabled, redis, tenant_table, user_tenants, user_table, now, reply, pc, request, tenant_id,
          cache_value, operations, pos, ast, perform_operations, modified_operations,
          oracle_calls, trail, posted, upstream, response>>

store_vars == <<cache_enabled, tenant_table, user_tenants, user_table, now, reply>>

modify_vars == <<operations, pos, ast, perform_operations, modified_operations,
                 oracle_calls>>

proxy_vars == <<pc, request, tenant_id, cache_value, modify_vars, trail, posted, upstream,
                response>>

NoReply == [endpoint |-> "none"]

NoRequest == [user |-> "", token |-> "", header |-> PyNone,
              body |-> [json_ok |-> FALSE, is_list |-> FALSE, operations |-> <<>>]]

NoResponse == [status_code |-> 0, content |-> PyNone]

NoUpstream == [status_code |-> 0, json_ok |-> FALSE, is_list |-> FALSE, elems |-> <<>>]

NoDocument == DocumentNode(<<>>)

Error(message) == [t |-> "json", error |-> message]

Init ==
    /\ cache_enabled \in BOOLEAN
    /\ redis = {}
    /\ tenant_table = {"t1", "t2", "t3"}
    /\ user_tenants = [u \in Users |->
                          CASE u = "1" -> {"t1", "t2"}
                            [] u = "2" -> {"t3"}
                            [] OTHER -> {"t1"}]
    /\ user_table = StoredUsers
    /\ now = 0
    /\ reply = NoReply
    /\ pc = "idle"
    /\ request = NoRequest
    /\ tenant_id = ""
    /\ cache_value = PyNone
    /\ operations = <<>>
    /\ pos = [i |-> 1, d |-> 0, s |-> 1]
    /\ ast = NoDocument
    /\ perform_operations = TRUE
    /\ modified_operations = <<>>
    /\ oracle_calls = <<>>
    /\ trail = <<>>
    /\ posted = <<>>
    /\ upstream = NoUpstream
    /\ response = NoResponse

(***************************************************************************)
(* POST /proxy (app/routers/proxy.py)                                      *)
(***************************************************************************)
Respond(status_code, content) ==
    /\ response' = [status_code |-> status_code, content |-> content]
    /\ pc' = "done"

\* the body of the response to an HTTPException
Detail(detail) == [t |-> "json", detail |-> detail]

\* A request arrives: the handler runs with the user that validate_token resolved,
\* or the dependency ends the request.
ProxyReceive(tokens, headers, bodies) ==
    /\ pc = "idle"
    /\ \E token \in tokens, header \in headers, body \in bodies :
          LET of(user) ==
                  /\ request' = [user |-> IF user.status = "found" THEN user.value ELSE "",
                                 token |-> token, header |-> header, body |-> body]
                  /\ IF user.status = "found"
                     THEN pc' = "parse" /\ UNCHANGED response
                     ELSE IF user.status = "http"
                     THEN Respond(user.status_code, Detail(user.detail))
                     ELSE Respond(500, PyStr("Internal Server Error"))
          IN of(validate_token(token, user_table, now))
    /\ UNCHANGED <<store_vars, redis, tenant_id, cache_value, modify_vars, trail, posted,
                   upstream>>

\* The handler has returned its response.
ProxyReturn ==
    /\ pc = "done"
    /\ pc' = "idle"
    /\ request' = NoRequest
    /\ tenant_id' = ""
    /\ cache_value' = PyNone
    /\ operations' = <<>>
    /\ pos' = [i |-> 1, d |-> 0, s |-> 1]
    /\ ast' = NoDocument
    /\ perform_operations' = TRUE
    /\ modified_operations' = <<>>
    /\ oracle_calls' = <<>>
    /\ trail' = <<>>
    /\ posted' = <<>>
    /\ upstream' = NoUpstream
    /\ response' = NoResponse
    /\ UNCHANGED <<store_vars, redis>>

\* lines 47-65: decode the body, read the tenant header
ProxyParse ==
    /\ pc = "parse"
    /\ IF ~request.body.json_ok
       THEN /\ Respond(400, PyStr("Invalid JSON"))
            /\ UNCHANGED <<tenant_id, trail>>
       ELSE IF ~Truthy(request.header) \/ request.header = PyStr("null")
       THEN /\ Respond(400, Error("Please provide tenant ID"))
            /\ trail' = Append(trail, "json")
            /\ UNCHANGED tenant_id
       ELSE /\ tenant_id' = request.header.s
            /\ trail' = trail \o <<"json", "header">>
            /\ pc' = "tenant_exists"
            /\ UNCHANGED response
    /\ UNCHANGED <<store_vars, redis, request, cache_value, modify_vars, posted, upstream>>

\* lines 66-84: does the tenant exist (through the cache)
ProxyTenantExists ==
    /\ pc = "tenant_exists"
    /\ LET cache_key == "tenant_" \o tenant_id \o "_exists"
           hit == Cache_get(cache_enabled, redis, cache_key)
           value == IF hit.t = "None"
                    THEN (IF tenant_id \in tenant_table THEN PyInt(1) ELSE PyInt(0))
                    ELSE hit
       IN /\ cache_value' = value
          /\ redis' = IF hit.t = "None"
                      THEN Cache_set(cache_enabled, redis, cache_key, value)
                      ELSE redis
          /\ IF value = PyInt(0)
             THEN /\ Respond(400, Error("Invalid tenant ID"))
                  /\ UNCHANGED trail
             ELSE /\ pc' = "user_tenants"
                  /\ trail' = Append(trail, "tenant_exists")
                  /\ UNCHANGED response
    /\ UNCHANGED <<store_vars, request, tenant_id, modify_vars, posted, upstream>>

\* user.tenants.all(), in the order of the table
TenantsOf(members) ==
    SelectSeq(TenantIds, LAMBDA t : t \in members)

\* Mutation of InList: the membership test "tenant_id not in tenants" always passes.
InList_Always(x, list) == TRUE

InList(x, list) == \E i \in 1..Len(list) : list[i] = x

\* lines 85-110: is the tenant one of the user's (through the cache)
ProxyUserTenants ==
    /\ pc = "user_tenants"
    /\ LET cache_key == "user_tenants_" \o request.user
           hit == Cache_get(cache_enabled, redis, cache_key)
           tenants_list == TenantsOf(user_tenants[request.user])
           value == IF hit.t = "None" THEN tenants_list ELSE string_to_list(hit.s)
       IN /\ cache_value' = PyList(value)
          /\ redis' = IF hit.t = "None"
                      THEN Cache_set(cache_enabled, redis, cache_key,
                                     PyStr(list_to_string(tenants_list)))
                      ELSE redis
          /\ IF ~InList(tenant_id, value)
             THEN /\ Respond(403, Error("Access denied"))
                  /\ UNCHANGED <<trail, operations>>
             ELSE /\ pc' = "modify"
                  /\ trail' = Append(trail, "user_tenants")
                  /\ operations' = request.body.operations
                  /\ UNCHANGED response
    /\ UNCHANGED <<store_vars, request, tenant_id, pos, ast, perform_operations,
                   modified_operations, oracle_calls, posted, upstream>>

\* ProxyUserTenants at its suspension points, for requests that run next to the
\* /user router: line 86, await cache.get
ProxyUserTenantsGet ==
    /\ pc = "user_tenants"
    /\ LET hit == Cache_get(cache_enabled, redis, "user_tenants_" \o request.user)
       IN IF hit.t = "None"
          THEN /\ cache_value' = PyNone
               /\ pc' = "user_tenants_all"
               /\ UNCHANGED <<trail, operations, response>>
          ELSE /\ cache_value' = PyList(string_to_list(hit.s))
               /\ IF ~InList(tenant_id, string_to_list(hit.s))
                  THEN /\ Respond(403, Error("Access denied"))
                       /\ UNCHANGED <<trail, operations>>
                  ELSE /\ pc' = "modify"
                       /\ trail' = Append(trail, "user_tenants")
                       /\ operations' = request.body.operations
                       /\ UNCHANGED response
    /\ UNCHANGED <<store_vars, redis, request, tenant_id, pos, ast, perform_operations,
                   modified_operations, oracle_calls, posted, upstream>>

\* lines 89-90, await user.tenants.all()
ProxyUserTenantsAll ==
    /\ pc = "user_tenants_all"
    /\ cache_value' = PyList(TenantsOf(user_tenants[request.user]))
    /\ pc' = "user_tenants_set"
    /\ UNCHANGED <<store_vars, redis, request, tenant_id, modify_vars, trail, posted,
                   upstream, response>>

\* lines 91-104, await cache.set and the membership test
ProxyUserTenantsSet ==
    /\ pc = "user_tenants_set"
    /\ redis' = Cache_set(cache_enabled, redis, "user_tenants_" \o request.user,
                          PyStr(list_to_string(cache_value.elems)))
    /\ IF ~InList(tenant_id, cache_value.elems)
       THEN /\ Respond(403, Error("Access denied"))
            /\ UNCHANGED <<trail, operations>>
       ELSE /\ pc' = "modify"
            /\ trail' = Append(trail, "user_tenants")
            /\ operations' = request.body.operations
            /\ UNCHANGED response
    /\ UNCHANGED <<store_vars, request, tenant_id, cache_value, pos, ast,
                   perform_operations, modified_operations, oracle_calls, posted, upstream>>

\* an exception that no handler catches: the framework answers 500
InternalServerError == Respond(500, PyStr("Internal Server Error"))

(***************************************************************************)
(* modify_operations (app/utils.py), one step per loop iteration           *)
(***************************************************************************)
Definition == ast.definitions[pos.d]

\* lines 561-567: the next operation of the list is decoded and parsed
ModifyBegin ==
    /\ pc = "modify"
    /\ pos.d = 0
    /\ pos.i <= Len(operations)
    /\ LET operation == operations[pos.i]
       IN IF ~operation.has_query
          THEN /\ InternalServerError
               /\ UNCHANGED <<operations, pos, ast>>
          ELSE /\ operations' =
                     IF operation.variables.t = "jsonstr"
                     THEN [operations EXCEPT ![pos.i].variables = operation.variables.decoded]
                     ELSE operations
               /\ ast' = operation.query
               /\ pos' = [pos EXCEPT !.d = 1, !.s = 1]
               /\ UNCHANGED <<pc, response>>
    /\ UNCHANGED <<store_vars, redis, request, tenant_id, cache_value, perform_operations,
                   modified_operations, oracle_calls, trail, posted, upstream>>

\* lines 569-570
ModifySkipFragment ==
    /\ pc = "modify"
    /\ pos.d \in 1..Len(ast.definitions)
    /\ Definition.kind = "FragmentDefinition"
    /\ pos' = [pos EXCEPT !.d = pos.d + 1, !.s = 1]
    /\ UNCHANGED <<store_vars, redis, pc, request, tenant_id, cache_value, operations, ast,
                   perform_operations, modified_operations, oracle_calls, trail, posted,
                   upstream, response>>

\* lines 574-809: one top-level selection of a query or a mutation
ModifySelection ==
    /\ pc = "modify"
    /\ pos.d \in 1..Len(ast.definitions)
    /\ Definition.kind = "OperationDefinition"
    /\ Definition.operation \in {"query", "mutation"}
    /\ LET apply(selection, step) ==
               IF step.status = "raised"
               THEN /\ InternalServerError
                    /\ UNCHANGED modify_vars
               ELSE /\ ast' = [ast EXCEPT !.definitions[pos.d].selections[pos.s] =
                                  step.selection]
                    /\ operations' = [operations EXCEPT ![pos.i].variables =
                                         step.variables]
                    /\ perform_operations' =
                           IF step.deny THEN FALSE ELSE perform_operations
                    /\ oracle_calls' = oracle_calls \o
                           [j \in 1..Len(step.calls) |->
                               step.calls[j] @@
                                   [at |-> pos, selection_name |-> selection.name]]
                    /\ pos' = IF step.brk \/ pos.s = Len(Definition.selections)
                              THEN [pos EXCEPT !.d = pos.d + 1, !.s = 1]
                              ELSE [pos EXCEPT !.s = pos.s + 1]
                    /\ UNCHANGED <<modified_operations, pc, response>>
           of(selection, variables) ==
               \E mode \in UpstreamModes :
                   IF Definition.operation = "query"
                   THEN apply(selection,
                              QuerySelection(selection, variables, tenant_id, mode))
                   ELSE apply(selection,
                              MutationSelection(selection, variables, tenant_id, mode))
       IN of(Definition.selections[pos.s], operations[pos.i].variables)
    /\ UNCHANGED <<store_vars, redis, request, tenant_id, cache_value, trail, posted,
                   upstream>>

\* lines 811-815: neither a query nor a mutation
ModifyOtherOperation ==
    /\ pc = "modify"
    /\ pos.d \in 1..Len(ast.definitions)
    /\ Definition.kind = "OperationDefinition"
    /\ Definition.operation \notin {"query", "mutation"}
    /\ perform_operations' = FALSE
    /\ pos' = [pos EXCEPT !.d = Len(ast.definitions) + 1, !.s = 1]
    /\ UNCHANGED <<store_vars, redis, pc, request, tenant_id, cache_value, operations, ast,
                   modified_operations, oracle_calls, trail, posted, upstream, response>>

\* lines 816-817: the document is printed back into the operation
ModifyPrint ==
    /\ pc = "modify"
    /\ pos.d > Len(ast.definitions)
    /\ operations' = [operations EXCEPT ![pos.i].query = ast]
    /\ modified_operations' = Append(modified_operations, operations'[pos.i])
    /\ pos' = [i |-> pos.i + 1, d |-> 0, s |-> 1]
    /\ ast' = NoDocument
    /\ UNCHANGED <<store_vars, redis, pc, request, tenant_id, cache_value,
                   perform_operations, oracle_calls, trail, posted, upstream, response>>

\* Mutation of ModifyReturn: the proxy forwards whatever perform_operations is.
ModifyReturn_IgnoreFlag ==
    /\ pc = "modify"
    /\ pos.d = 0
    /\ pos.i > Len(operations)
    /\ operations' = modified_operations
    /\ pc' = "forward"
    /\ trail' = Append(trail, "modify")
    /\ UNCHANGED <<store_vars, redis, request, tenant_id, cache_value, pos, ast,
                   perform_operations, modified_operations, oracle_calls, posted, upstream,
                   response>>

\* line 818 and proxy.py lines 111-118
ModifyReturn ==
    /\ pc = "modify"
    /\ pos.d = 0
    /\ pos.i > Len(operations)
    /\ operations' = modified_operations
    /\ IF ~perform_operations
       THEN /\ Respond(403, Error("Access denied"))
            /\ UNCHANGED trail
       ELSE /\ pc' = "forward"
            /\ trail' = Append(trail, "modify")
            /\ UNCHANGED response
    /\ UNCHANGED <<store_vars, redis, request, tenant_id, cache_value, pos, ast,
                   perform_operations, modified_operations, oracle_calls, posted, upstream>>

\* Mutation of FilterElems: every element goes through filter_tenants.
FilterElems_All(elems, flags, tenants) ==
    IF \E i \in 1..Len(elems) : filter_tenants(elems[i], tenants).status = "raised"
    THEN Raised
    ELSE Hit([i \in 1..Len(elems) |-> filter_tenants(elems[i], tenants).value])

\* lines 143-151: the elements of the response body, filtered where the operation
\* is a tenant query
RECURSIVE FilterElems(_, _, _)
FilterElems(elems, flags, tenants) ==
    IF Len(elems) = 0 THEN Hit(<<>>)
    ELSE LET this == IF Head(flags) THEN filter_tenants(Head(elems), tenants)
                     ELSE Hit(Head(elems))
             rest == FilterElems(Tail(elems), Tail(flags), tenants)
         IN IF this.status = "raised" \/ rest.status = "raised" THEN Raised
            ELSE Hit(<<this.value>> \o rest.value)

Content(json_ok, is_list, elems) ==
    [t |-> "body", json_ok |-> json_ok, is_list |-> is_list, elems |-> elems]

\* lines 119-166: forward the batch and answer with the (filtered) response.
\* graphql_request catches nothing: when httpx raises (timeout, connection error) no
\* response comes and the exception leaves the handler.
ProxyForward(elements) ==
    /\ pc = "forward"
    /\ \/ /\ posted' = Append(posted, [is_list |-> request.body.is_list,
                                        operations |-> operations])
          /\ upstream' = NoUpstream
          /\ InternalServerError
       \/ \E answer \in UpstreamAnswers(elements, request.body.is_list, Len(operations)) :
          LET is_tenant_query_operation ==
                  [i \in 1..Len(operations) |-> is_tenant_query(operations[i])]
              any == \E i \in 1..Len(operations) : is_tenant_query_operation[i]
              flags == IF answer.is_list THEN is_tenant_query_operation
                       ELSE [i \in 1..Len(answer.elems) |-> TRUE]
              filtered == FilterElems(answer.elems, flags, user_tenants[request.user])
          IN /\ posted' = Append(posted, [is_list |-> request.body.is_list,
                                          operations |-> operations])
             /\ upstream' = answer
             /\ IF ~any
                THEN Respond(answer.status_code,
                             Content(answer.json_ok, answer.is_list, answer.elems))
                ELSE IF ~answer.json_ok THEN Respond(400, PyStr("Invalid JSON"))
                ELSE IF filtered.status = "raised" THEN InternalServerError
                ELSE Respond(answer.status_code,
                             Content(TRUE, answer.is_list, filtered.value))
    /\ trail' = Append(trail, "forward")
    /\ UNCHANGED <<store_vars, redis, request, tenant_id, cache_value, modify_vars>>

(***************************************************************************)
(* /user router (app/routers/user.py), /auth router (app/routers/auth.py)  *)
(***************************************************************************)
\* the response of a handler of the /user router; user is the row it acted on
RouterReply(endpoint, user, status_code) ==
    [endpoint |-> endpoint, user |-> user, status_code |-> status_code]

\* a dependency or a lookup ended the request: nothing is written
Failed(endpoint, status_code) ==
    /\ reply' = RouterReply(endpoint, "", status_code)
    /\ UNCHANGED <<user_tenants, user_table, redis>>

StatusCode(r) == IF r.status = "http" THEN r.status_code ELSE 500

\* "if id != 'me': ... user = await User.get(id=id)": the row the handler acts on,
\* 403 for a plain user naming somebody else, 404 for a row that does not exist
UserOf(id, me, table, owner_allowed) ==
    IF id = "me" THEN Hit(me)
    ELSE IF owner_allowed /\ ~table[me].is_admin /\ id # me
    THEN HTTPException(403, "Forbidden")
    ELSE IF id \notin DOMAIN table THEN HTTPException(404, "Object does not exist")
    ELSE Hit(id)

\* POST /user/{id}/tenant/{tenant_id}
AddUserTenant(tokens, ids, tenants) ==
    /\ \E token \in tokens, id \in ids, tenant \in tenants :
          LET act(user) ==
                  IF user.status # "found" THEN Failed("add_user_tenant", StatusCode(user))
                  ELSE IF tenant \notin tenant_table THEN Failed("add_user_tenant", 404)
                  ELSE /\ user_tenants' = [user_tenants EXCEPT ![user.value] = @ \cup {tenant}]
                       /\ redis' = Cache_delete(cache_enabled, redis,
                                                "user_tenants_" \o user.value)
                       /\ reply' = RouterReply("add_user_tenant", user.value, 200)
                       /\ UNCHANGED user_table
              of(me) ==
                  IF me.status # "found" THEN Failed("add_user_tenant", StatusCode(me))
                  ELSE act(UserOf(id, me.value, user_table, TRUE))
          IN of(validate_token(token, user_table, now))
    /\ UNCHANGED <<cache_enabled, tenant_table, now, proxy_vars>>

\* DELETE /user/{id}/tenant/{tenant_id}
RemoveUserTenant(tokens, ids, tenants) ==
    /\ \E token \in tokens, id \in ids, tenant \in tenants :
          LET act(user) ==
                  IF user.status # "found"
                  THEN Failed("remove_user_tenant", StatusCode(user))
                  ELSE IF tenant \notin tenant_table THEN Failed("remove_user_tenant", 404)
                  ELSE /\ user_tenants' = [user_tenants EXCEPT ![user.value] = @ \ {tenant}]
                       /\ redis' = Cache_delete(cache_enabled, redis,
                                                "user_tenants_" \o user.value)
                       /\ reply' = RouterReply("remove_user_tenant", user.value, 200)
                       /\ UNCHANGED user_table
              of(me) ==
                  IF me.status # "found" THEN Failed("remove_user_tenant", StatusCode(me))
                  ELSE act(UserOf(id, me.value, user_table, FALSE))
          IN of(validate_admin(token, user_table, now))
    /\ UNCHANGED <<cache_enabled, tenant_table, now, proxy_vars>>

\* DELETE /user/{id}: the row goes, and with it its rows of user_tenant
DeleteUser(tokens, ids) ==
    /\ \E token \in tokens, id \in ids :
          LET act(user) ==
                  IF user.status # "found" THEN Failed("delete_user", StatusCode(user))
                  ELSE /\ user_table' = [u \in DOMAIN user_table \ {user.value} |->
                                            user_table[u]]
                       /\ user_tenants' = [user_tenants EXCEPT ![user.value] = {}]
                       /\ redis' = Cache_delete(cache_enabled, redis,
                                                "user_tenants_" \o user.value)
                       /\ reply' = RouterReply("delete_user", user.value, 200)
              of(me) ==
                  IF me.status # "found" THEN Failed("delete_user", StatusCode(me))
                  ELSE act(UserOf(id, me.value, user_table, FALSE))
          IN of(validate_admin(token, user_table, now))
    /\ UNCHANGED <<cache_enabled, tenant_table, now, proxy_vars>>

\* user.update_from_dict(user_data): the fields of user_data replace the row's
update_from_dict(row, user_data) ==
    [f \in DOMAIN row |-> IF f \in DOMAIN user_data THEN user_data[f] ELSE row[f]]

\* user.dict(exclude_unset=True) with "if user_data.get('password'):
\* user_data['password'] = await password_hash(user_data['password'])"
HashedUserData(user_data, token_hex) ==
    IF "password" \in DOMAIN user_data /\ user_data.password # ""
    THEN [user_data EXCEPT !.password = password_hash(@, "", 0, token_hex).value]
    ELSE user_data

\* PATCH /user/{id}; the reply keeps the row before and after and the body sent
UpdateUser(tokens, ids, patches) ==
    /\ \E token \in tokens, id \in ids, user_data \in patches, token_hex \in Salts :
          LET act(user) ==
                  IF user.status # "found" THEN Failed("update_user", StatusCode(user))
                  ELSE /\ user_table' =
                             [user_table EXCEPT ![user.value] =
                                 update_from_dict(@, HashedUserData(user_data, token_hex))]
                       /\ redis' = Cache_delete(cache_enabled, redis,
                                                "user_tenants_" \o user.value)
                       /\ reply' = RouterReply("update_user", user.value, 200) @@
                                       [body |-> user_data,
                                        before |-> user_table[user.value],
                                        after |-> user_table'[user.value]]
                       /\ UNCHANGED user_tenants
              of(me) ==
                  IF me.status # "found" THEN Failed("update_user", StatusCode(me))
                  ELSE IF ~user_table[me.value].is_admin /\ id # "me" /\ id # me.value
                  THEN Failed("update_user", 403)
                  ELSE act(UserOf(id, me.value, user_table, FALSE))
          IN of(validate_token(token, user_table, now))
    /\ UNCHANGED <<cache_enabled, tenant_table, now, proxy_vars>>

\* LoginResponse(token=token, success=success), sent with status 200
LoginResponse(token, success) ==
    [status_code |-> 200, token |-> token, success |-> success]

\* Mutation of Login: a wrong password is told apart from an unknown username.
Login_WrongPassword(usernames, passwords) ==
    /\ \E username \in usernames, password \in passwords :
          LET of(rows) ==
                  IF rows = {} THEN LoginResponse("", FALSE)
                  ELSE IF password_verify(password,
                              user_table[CHOOSE u \in rows : TRUE].password, "ab")
                          = Hit(TRUE)
                  THEN LoginResponse(user_table[CHOOSE u \in rows : TRUE].token, TRUE)
                  ELSE LoginResponse("wrong password", FALSE)
          IN reply' = [endpoint |-> "login", username |-> username,
                       password |-> password,
                       response |-> of({u \in DOMAIN user_table :
                                          user_table[u].username = username})]
    /\ UNCHANGED <<cache_enabled, tenant_table, user_tenants, user_table, now, redis,
                   proxy_vars>>

\* POST /auth/login; User.filter(username=...).first() is the row of that name
\* (username is unique) or None
Login(usernames, passwords) ==
    /\ \E username \in usernames, password \in passwords, token_hex \in Salts :
          LET verified(ok, user) ==
                  IF ok.status = "raised"
                  THEN [status_code |-> 500, token |-> "", success |-> FALSE]
                  ELSE IF ~ok.value THEN LoginResponse("", FALSE)
                  ELSE LoginResponse(user_table[user].token, TRUE)
              of(rows) ==
                  IF rows = {} THEN LoginResponse("", FALSE)
                  ELSE verified(password_verify(password,
                                    user_table[CHOOSE u \in rows : TRUE].password,
                                    token_hex),
                                CHOOSE u \in rows : TRUE)
          IN reply' = [endpoint |-> "login", username |-> username,
                       password |-> password,
                       response |-> of({u \in DOMAIN user_table :
                                          user_table[u].username = username})]
    /\ UNCHANGED <<cache_enabled, tenant_table, user_tenants, user_table, now, redis,
                   proxy_vars>>

\* the largest iteration count handed to password_hash; 0 stands for none
MaxIterations == 2

\* await password_hash(password, salt, iterations)
PasswordHash ==
    /\ \E password \in {Passwords[i] : i \in 1..Len(Passwords)}, salt \in Salts \cup {""},
          iterations \in 0..MaxIterations, token_hex \in Salts :
          reply' = [endpoint |-> "password_hash", password |-> password, salt |-> salt,
                    iterations |-> iterations,
                    hashed |-> password_hash(password, salt, iterations, token_hex)]
    /\ UNCHANGED <<cache_enabled, tenant_table, user_tenants, user_table, now, redis,
                   proxy_vars>>

\* await password_verify(candidate, hashed) on the hash just made
PasswordVerify ==
    /\ reply.endpoint = "password_hash"
    /\ reply.hashed.status = "found"
    /\ \E candidate \in {Passwords[i] : i \in 1..Len(Passwords)}, token_hex \in Salts :
          reply' = [endpoint |-> "password_verify", password |-> reply.password,
                    candidate |-> candidate, hashed |-> reply.hashed.value,
                    result |-> password_verify(candidate, reply.hashed.value, token_hex)]
    /\ UNCHANGED <<cache_enabled, tenant_table, user_tenants, user_table, now, redis,
                   proxy_vars>>

\* stored strings that do not split on "$" into 4 parts
BrokenHashes ==
    {"", "secret", "pbkdf2_sha256$1", "pbkdf2_sha256$1$ab", "pbkdf2_sha256$1$ab$1/ab/1$"}

\* await password_verify(candidate, hashed) on such a stored string
PasswordVerifyStored ==
    /\ \E candidate \in {Passwords[i] : i \in 1..Len(Passwords)}, hashed \in BrokenHashes,
          token_hex \in Salts :
          reply' = [endpoint |-> "password_verify_stored", candidate |-> candidate,
                    hashed |-> hashed,
                    result |-> password_verify(candidate, hashed, token_hex)]
    /\ UNCHANGED <<cache_enabled, tenant_table, user_tenants, user_table, now, redis,
                   proxy_vars>>

\* the last instant of the clock
MaxNow == 2

\* time passes
Tick ==
    /\ now < MaxNow
    /\ now' = now + 1
    /\ UNCHANGED <<cache_enabled, tenant_table, user_tenants, user_table, reply, redis,
                   proxy_vars>>

\* an entry of the cache is evicted
Evict ==
    /\ \E e \in redis : redis' = redis \ {e}
    /\ UNCHANGED <<store_vars, proxy_vars>>

Steps ==
    \/ ProxyParse
    \/ ProxyTenantExists
    \/ ProxyUserTenants
    \/ ModifyBegin
    \/ ModifySkipFragment
    \/ ModifySelection
    \/ ModifyOtherOperation
    \/ ModifyPrint
    \/ ModifyReturn
    \/ ProxyReturn

\* The whole pipeline, with and without the cache.
Next ==
    \/ ProxyReceive({"tok1", "tok3"}, TenantHeaders, Bodies(PipelineOperations))
    \/ ProxyForward(ResultElements)
    \/ Steps
    \/ Evict

Spec == Init /\ [][Next]_vars

\* The rewriter on every operation of the model, for a user of tenant t1 and the
\* default configuration (CACHE_ENABLE is false).
InitRewrite == Init /\ cache_enabled = FALSE

NextRewrite ==
    \/ ProxyReceive({"tok1"}, {PyStr("t1")}, Bodies(Operations) \ Bodies({}))
    \/ ProxyForward(ResultElements)
    \/ Steps

SpecRewrite == InitRewrite /\ [][NextRewrite]_vars

\* The response filter on the answers to one operation, for both users, each with
\* a tenant of their own.
FilterOperations == {OpTenant, OpTenantAndFlow, OpFlow, OpSubscription, OpFragmentAndQuery}

NextFilter ==
    \/ ProxyReceive({"tok1", "tok2"}, {PyStr("t1"), PyStr("t3")}, Singles(FilterOperations))
    \/ ProxyForward(FilterElements)
    \/ Steps

SpecFilter == Init /\ [][NextFilter]_vars

\* Membership changes between the proxy requests of users 1 and 2, with and
\* without the cache.
MembershipOperations == {OpHello, OpSubscription, OpFragmentAndQuery}

MembershipAdd == AddUserTenant({"tok1", "tok2"}, {"me", "2"}, {"t1", "t9"})

MembershipRemove == RemoveUserTenant({"tok1"}, {"me", "2"}, {"t1"})

MembershipDelete == DeleteUser({"tok1"}, {"2"})

MembershipUpdate == UpdateUser({"tok2"}, {"me", "1"}, {[username |-> "eve"]})

NextMembership ==
    \/ ProxyReceive({"tok1", "tok2"}, {PyStr("t1")}, Objects(MembershipOperations))
    \/ ProxyForward({NoTenantElement})
    \/ Steps
    \/ MembershipAdd
    \/ MembershipRemove
    \/ MembershipDelete
    \/ MembershipUpdate
    \/ Evict

SpecMembership == Init /\ [][NextMembership]_vars

\* Token validation in front of the proxy while time passes and users 2 and 4
\* change their rows.
TokenUpdate ==
    UpdateUser({"tok2", "tok4"}, {"me"}, {[is_active |-> FALSE], [token_expiry |-> PyInt(2)]})

NextTokens ==
    \/ ProxyReceive(Tokens, {PyStr("t1")}, Objects(MembershipOperations))
    \/ ProxyForward({NoTenantElement})
    \/ Steps
    \/ Tick
    \/ TokenUpdate

SpecTokens == InitRewrite /\ [][NextTokens]_vars

\* Logins while users 1 and 2 change their passwords.
LoginAttempt ==
    Login({"alice", "bob", "nobody"}, {Passwords[i] : i \in 1..Len(Passwords)})

PasswordUpdate ==
    UpdateUser({"tok1", "tok2"}, {"me", "2"},
               {[password |-> Passwords[i]] : i \in 1..Len(Passwords)})

NextLogin ==
    \/ LoginAttempt
    \/ PasswordUpdate

SpecLogin == InitRewrite /\ [][NextLogin]_vars

\* password_hash and password_verify on the passwords, salts and iteration counts
\* of the model.
NextPassword ==
    \/ PasswordHash
    \/ PasswordVerify
    \/ PasswordVerifyStored

SpecPassword == InitRewrite /\ [][NextPassword]_vars

\* The rewriter alone on single operations that carry identifiers, cache disabled.
IdOperations ==
    { OpFlowByPk("f1"), OpFlowByPkShadowed, OpFlowRunByPk, OpDeleteFlow("f1"),
      OpDeleteFlowOfProject, OpSubscription, OpFragmentAndQuery, OpFragmentOnly,
      OpSetStates("set_flow_run_states", "flow_run_id", <<"r1">>),
      OpSetStates("set_flow_run_states", "flow_run_id", <<"r1", "r2">>),
      OpSetStatesVar("set_flow_run_states", "flow_run_id", <<"r2", "r1">>),
      OpSetStates("set_task_run_states", "task_run_id", <<"tr2">>),
      OpInsertFlowRuns(<<"f1">>), OpInsertFlowRuns(<<"f1", "f2">>), OpInsertFlowRunVar,
      OpCreateFlowRun("f1"), OpCreateFlowRun("f2"), OpCreateFlowRunVar,
      OpCreateProject("t1"), OpCreateProject("t2"),
      OpOnWidget("delete_widget"), OpOnWidget("create_widget"),
      OpSetStates("set_widget_states", "widget_id", <<"w1">>),
      OpTenant, OpTenantAndFlow, OpTenantAggregate, OpTenantIdTwice,
      OpNoArguments("create_flow_run"), OpNoArguments("insert_flow_run"),
      OpNoArguments("write_run_logs"), OpNoArguments("set_flow_run_states"),
      OpNoArguments("delete_flow"), OpWriteRunLogs(<<"r1">>) }

NextIds ==
    \/ ProxyReceive({"tok1"}, {PyStr("t1")}, Singles(IdOperations))
    \/ ProxyForward(ResultElements)
    \/ Steps

SpecIds == InitRewrite /\ [][NextIds]_vars

\* Proxy requests of user 1 next to membership changes of user 1, cache enabled;
\* the membership check of the proxy is taken at its suspension points.
InitRace == Init /\ cache_enabled = TRUE

RaceAdd == AddUserTenant({"tok1"}, {"me"}, {"t1", "t3"})

RaceRemove == RemoveUserTenant({"tok1"}, {"me"}, {"t1"})

NextRace ==
    \/ ProxyReceive({"tok1"}, {PyStr("t1"), PyStr("t3")}, Objects(MembershipOperations))
    \/ ProxyForward({NoTenantElement})
    \/ ProxyParse
    \/ ProxyTenantExists
    \/ ProxyUserTenantsGet
    \/ ProxyUserTenantsAll
    \/ ProxyUserTenantsSet
    \/ ModifyBegin
    \/ ModifySkipFragment
    \/ ModifySelection
    \/ ModifyOtherOperation
    \/ ModifyPrint
    \/ ModifyReturn
    \/ ProxyReturn
    \/ RaceAdd
    \/ RaceRemove

SpecRace == InitRace /\ [][NextRace]_vars

(***************************************************************************)
(* Properties                                                              *)
(***************************************************************************)
AccessDenied == [status_code |-> 403, content |-> Error("Access denied")]

\* the operations POSTed upstream for the client, with their place in the batch
Forwarded ==
    UNION {{[i |-> i, operation |-> posted[k].operations[i]] :
               i \in 1..Len(posted[k].operations)} : k \in 1..Len(posted)}

\* the top-level selections of the definitions of one type, with their place
SelectionsOf(operation, type) ==
    UNION {{[d |-> d, s |-> j, selection |-> operation.query.definitions[d].selections[j]] :
               j \in 1..Len(operation.query.definitions[d].selections)} :
           d \in {e \in 1..Len(operation.query.definitions) :
                     /\ operation.query.definitions[e].kind = "OperationDefinition"
                     /\ operation.query.definitions[e].operation = type}}

\* the operations of the request in flight, as the client sent them
Requested ==
    {request.body.operations[i] : i \in 1..Len(request.body.operations)}

\* the four shapes of a query selection
PublicQuery(name) == name \in {"hello", "reference_data", "api", "__schema"}

OracleQuery(name) ==
    ~PublicQuery(name)
    /\ (name \in {"mapped_children", "get_task_run_info"} \/ EndsWith(name, "_by_pk"))

TenantShapedQuery(name) ==
    ~PublicQuery(name) /\ ~OracleQuery(name) /\ StartsWith(name, "tenant")

GenericQuery(name) ==
    ~PublicQuery(name) /\ ~OracleQuery(name) /\ ~StartsWith(name, "tenant")

\* the value of an _eq field is T, inline or through the variables mapping
EqResolvesTo(value, variables, T) ==
    \/ value.kind = "StringValue" /\ value.value = T
    \/ /\ value.kind = "Variable"
       /\ variables.t = "dict"
       /\ HasKey(variables, value.name)
       /\ GetItem(variables, value.name) = PyStr(T)

\* an inline where object has tenant_id: {_eq: T}
InlineScoped(where_node, variables, T) ==
    \E f \in 1..Len(where_node.fields) :
        /\ where_node.fields[f].name = "tenant_id"
        /\ where_node.fields[f].value.kind = "ObjectValue"
        /\ \E e \in 1..Len(where_node.fields[f].value.fields) :
              /\ where_node.fields[f].value.fields[e].name = "_eq"
              /\ EqResolvesTo(where_node.fields[f].value.fields[e].value, variables, T)

\* the value bound to a where variable has tenant_id: {_eq: T}
BoundScoped(bound, T) ==
    /\ bound.t = "dict"
    /\ HasKey(bound, "tenant_id")
    /\ GetItem(bound, "tenant_id").t = "dict"
    /\ HasKey(GetItem(bound, "tenant_id"), "_eq")
    /\ GetItem(GetItem(bound, "tenant_id"), "_eq") = PyStr(T)

\* the selection has a where argument whose tenant_id._eq resolves to T
Scoped(selection, variables, T) ==
    \E a \in 1..Len(selection.arguments) :
        /\ selection.arguments[a].name = "where"
        /\ \/ /\ selection.arguments[a].value.kind = "ObjectValue"
              /\ InlineScoped(selection.arguments[a].value, variables, T)
           \/ /\ selection.arguments[a].value.kind = "Variable"
              /\ variables.t = "dict"
              /\ HasKey(variables, selection.arguments[a].value.name)
              /\ BoundScoped(GetItem(variables, selection.arguments[a].value.name), T)

\* the selection has a where argument that carries a tenant_id predicate
CarriesTenantPredicate(selection, variables) ==
    \E a \in 1..Len(selection.arguments) :
        /\ selection.arguments[a].name = "where"
        /\ \/ /\ selection.arguments[a].value.kind = "ObjectValue"
              /\ \E f \in 1..Len(selection.arguments[a].value.fields) :
                    selection.arguments[a].value.fields[f].name = "tenant_id"
           \/ /\ selection.arguments[a].value.kind = "Variable"
              /\ variables.t = "dict"
              /\ HasKey(variables, selection.arguments[a].value.name)
              /\ GetItem(variables, selection.arguments[a].value.name).t = "dict"
              /\ HasKey(GetItem(variables, selection.arguments[a].value.name), "tenant_id")

\* modify_operations is at a top-level selection of a definition of that type
AtSelection(type) ==
    /\ pc = "modify"
    /\ pos.d \in 1..Len(ast.definitions)
    /\ Definition.kind = "OperationDefinition"
    /\ Definition.operation = type

\* modify_operations is at a definition that is neither a query nor a mutation
AtOtherOperation ==
    /\ pc = "modify"
    /\ pos.d \in 1..Len(ast.definitions)
    /\ Definition.kind = "OperationDefinition"
    /\ Definition.operation \notin {"query", "mutation"}

\* C1: the batch is POSTed upstream at most once per request, and only after
\* the body decoded as JSON, the tenant header was present and not "null", the
\* tenant was found to exist, the header tenant was among the user's tenants
\* and modify_operations returned allow = true, in that order; a response
\* produced before that is produced without a POST of the batch.
C1_ForwardOnlyAfterChecks ==
    /\ Len(posted) <= 1
    /\ posted # <<>> =>
          /\ request.body.json_ok
          /\ request.header.t = "str"
          /\ request.header.s \notin {"", "null"}
          /\ request.header.s \in tenant_table
          /\ request.header.s \in user_tenants[request.user]
          /\ perform_operations
          /\ Len(trail) >= 5
          /\ SubSeq(trail, 1, 5) =
                 <<"json", "header", "tenant_exists", "user_tenants", "modify">>
    /\ (pc = "done" /\ (Len(trail) < 5 \/ ~perform_operations)) => posted = <<>>

\* a request went through every check and its batch was forwarded
C1_Witness ==
    /\ pc = "done"
    /\ posted # <<>>
    /\ response.status_code = 200
    /\ Len(request.body.operations) = 2

\* C2: every generic query selection (not public, not mapped_children or
\* get_task_run_info, not *_by_pk, not tenant*) of a forwarded batch has a where
\* argument whose tenant_id._eq, inline or through variables, is the header
\* tenant, whatever the client sent as where.
C2_GenericQueriesScoped ==
    \A f \in Forwarded :
        \A q \in SelectionsOf(f.operation, "query") :
            GenericQuery(q.selection.name) =>
                Scoped(q.selection, f.operation.variables, tenant_id)

\* C3: in a forwarded batch, every generic query selection whose where carries
\* a tenant_id predicate has tenant_id._eq resolving to the header tenant: the
\* client's own tenant scoping is never kept.
C3_ClientTenantOverwritten ==
    \A f \in Forwarded :
        \A q \in SelectionsOf(f.operation, "query") :
            (GenericQuery(q.selection.name)
             /\ CarriesTenantPredicate(q.selection, f.operation.variables)) =>
                Scoped(q.selection, f.operation.variables, tenant_id)

\* the entities the oracle may be asked about for a selection
OracleEntities(name) ==
    IF name \in {"mapped_children", "get_task_run_info"} THEN {PyStr("task_run")}
    ELSE IF name = "flow_by_pk" THEN {PyStr("flow"), PyStr("flow_group")}
    ELSE {PyStr(SubSeq(name, 1, Len(name) - Len("_by_pk")))}

\* C4: every *_by_pk, mapped_children or get_task_run_info selection of a
\* forwarded batch was preceded by a Belonging Oracle call, made for that
\* selection, that returned true for its entity (flow or flow_group for
\* flow_by_pk) and the header tenant.
C4_ByPkBackedByOracle ==
    \A f \in Forwarded :
        \A q \in SelectionsOf(f.operation, "query") :
            OracleQuery(q.selection.name) =>
                \E c \in 1..Len(oracle_calls) :
                    /\ oracle_calls[c].at = [i |-> f.i, d |-> q.d, s |-> q.s]
                    /\ oracle_calls[c].entity \in OracleEntities(q.selection.name)
                    /\ oracle_calls[c].tenant_id = tenant_id
                    /\ oracle_calls[c].ret = PyBool(TRUE)

\* the upstream holds the row and answered the probe of this call with it
ProbeEvidence(call) ==
    /\ call.probed
    /\ call.mode = "ok"
    /\ <<Format(call.entity), Format(call.id), call.tenant_id>> \in UpstreamRows

\* C5: the Belonging Oracle answers with an allowing value only on a cached true
\* for the triple or on the upstream's evidence for this call, and the answer
\* is written to the cache.
C5_OracleTrueOnlyOnEvidence ==
    \A c \in 1..Len(oracle_calls) :
        /\ Truthy(oracle_calls[c].ret) =>
              \/ <<oracle_calls[c].cache_key, "True">> \in redis
              \/ ProbeEvidence(oracle_calls[c])
        /\ oracle_calls[c].stored

ForbiddenEntity(entity) ==
    \/ StartsWith(entity, "cloud_hook")
    \/ StartsWith(entity, "project_description")
    \/ StartsWith(entity, "message")
    \/ \E i \in 1..Len(entity) :
          i + 7 <= Len(entity) /\ SubSeq(entity, i, i + 7) = "artifact"

ForbiddenMutation(name) == ForbiddenEntity(split_operation_entity_mode(name).entity)

\* C7: a mutation selection on a forbidden entity is denied without any oracle
\* call, whatever its action, and no batch holding one is forwarded.
C7_BlockedEntityDenied ==
    [][/\ (AtSelection("mutation")
           /\ ForbiddenMutation(Definition.selections[pos.s].name)) =>
              /\ ~perform_operations'
              /\ oracle_calls' = oracle_calls
              /\ pc' = "modify"
       /\ posted' # <<>> =>
              \A o \in {r \in Requested' : r.has_query} :
                  \A m \in SelectionsOf(o, "mutation") :
                      ~ForbiddenMutation(m.selection.name)]_vars

\* delete_cloud_hook_by_pk was denied and the oracle was not asked
C7_Witness ==
    /\ pc = "done"
    /\ request.body.operations = <<OpDeleteCloudHook>>
    /\ oracle_calls = <<>>
    /\ response = AccessDenied

\* the actions a mutation may have
KnownActions ==
    {"delete", "set", "update", "insert", "archive", "cancel", "create", "disable",
     "enable", "get", "register", "get_or_create", "write"}

UnknownMutation(name) == split_operation_entity_mode(name).action \notin KnownActions

\* C8: a mutation selection with an action outside the known ones is denied, an
\* operation definition that is neither a query nor a mutation makes the batch
\* denied, and no batch holding either is forwarded.
C8_DefaultDeny ==
    [][/\ (AtSelection("mutation")
           /\ UnknownMutation(Definition.selections[pos.s].name)) =>
              ~perform_operations'
       /\ AtOtherOperation => ~perform_operations'
       /\ posted' # <<>> =>
              \A o \in {r \in Requested' : r.has_query} :
                  /\ \A m \in SelectionsOf(o, "mutation") :
                        ~UnknownMutation(m.selection.name)
                  /\ \A d \in 1..Len(o.query.definitions) :
                        o.query.definitions[d].kind = "OperationDefinition" =>
                            o.query.definitions[d].operation \in {"query", "mutation"}]_vars

\* purge_flow and a subscription were both examined and the batch was denied
C8_Witness ==
    /\ pc = "done"
    /\ request.body.operations = <<OpPurgeFlow, OpSubscription>>
    /\ Len(modified_operations) = 2
    /\ response = AccessDenied

\* out is the sub-list of the elements of in whose id is in tenants, in order
IsSubListById(out, in, tenants) ==
    \E f \in [1..Len(out) -> 1..Len(in)] :
        /\ \A i, j \in 1..Len(out) : i < j => f[i] < f[j]
        /\ \A i \in 1..Len(out) : out[i] = in[f[i]]
        /\ \A k \in 1..Len(in) : in[k].id \in tenants <=> \E i \in 1..Len(out) : f[i] = k

\* the filtered body was returned and element i went through filter_tenants
WentThroughFilter(i) ==
    /\ pc = "done"
    /\ posted # <<>>
    /\ response.content.t = "body"
    /\ upstream.json_ok
    /\ \E o \in 1..Len(posted[1].operations) : is_tenant_query(posted[1].operations[o])
    /\ i \in 1..Len(upstream.elems)
    /\ ~upstream.is_list \/ is_tenant_query(posted[1].operations[i])

\* C9: filter_tenants replaces data.tenant by exactly the sub-list of its
\* elements whose id is in the user's membership, in their original order, and
\* changes nothing else in the element.
C9_FilterTenantsExact ==
    \A i \in 1..Len(upstream.elems) :
        WentThroughFilter(i) =>
            /\ Len(response.content.elems) = Len(upstream.elems)
            /\ response.content.elems[i].has_tenant = upstream.elems[i].has_tenant
            /\ response.content.elems[i].rest = upstream.elems[i].rest
            /\ IsSubListById(response.content.elems[i].tenant, upstream.elems[i].tenant,
                             user_tenants[request.user])

\* of the rows t3, t2, t1 the user of t1 and t2 is answered t2, t1
C9_Witness ==
    /\ WentThroughFilter(1)
    /\ request.user = "1"
    /\ upstream.elems[1].tenant = <<Row("t3", "c"), Row("t2", "b"), Row("t1", "a")>>
    /\ response.content.elems[1].tenant = <<Row("t2", "b"), Row("t1", "a")>>

\* C10: every forwarded operation with a top-level query selection whose name
\* starts with tenant (exempt from where injection) is classified a tenant query,
\* and the element returned for it holds no tenant row outside the user's
\* membership.
C10_TenantQueriesFiltered ==
    \A f \in Forwarded :
        (\E q \in SelectionsOf(f.operation, "query") :
             TenantShapedQuery(q.selection.name)) =>
            /\ is_tenant_query(f.operation)
            /\ (pc = "done" /\ response.content.t = "body"
                /\ f.i <= Len(response.content.elems)) =>
                   \A r \in 1..Len(response.content.elems[f.i].tenant) :
                       response.content.elems[f.i].tenant[r].id
                           \in user_tenants[request.user]

\* C11: when add_user_tenant, remove_user_tenant, delete_user or update_user has
\* completed, the cache holds no user_tenants_{id} entry of the user it acted on,
\* and every membership decision of the proxy is the one the user_tenant relation
\* gives at that moment.
C11_MembershipInvalidated ==
    /\ [][(MembershipAdd \/ MembershipRemove \/ MembershipDelete \/ MembershipUpdate)
             /\ reply'.status_code = 200
          => \A e \in redis' : e[1] # "user_tenants_" \o reply'.user]_vars
    /\ [][pc = "user_tenants" /\ pc' # pc
          => ((pc' = "done" /\ response' = AccessDenied)
                 <=> tenant_id \notin user_tenants[request.user])]_vars

\* user 1 lost tenant t1, and the request that followed was decided on the new set,
\* which it wrote to the cache
C11_Witness ==
    /\ cache_enabled
    /\ reply = RouterReply("remove_user_tenant", "1", 200)
    /\ pc = "done"
    /\ request.user = "1"
    /\ tenant_id = "t1"
    /\ response = AccessDenied
    /\ <<"user_tenants_1", "t2">> \in redis

InvalidTenant == [status_code |-> 400, content |-> Error("Invalid tenant ID")]

\* the request in flight has a JSON body, a tenant header and a resolved user
PastHeader == Len(trail) >= 2 /\ trail[2] = "header"

\* C12: with the tenant and user_tenant tables unchanged, a finished request has the
\* outcome that the tables alone give, whatever the cache holds: 400 Invalid tenant
\* ID for a tenant that is not in the table, 403 Access denied for a tenant that is
\* not one of the user's, and otherwise the verdict of the rewriter.
C12_CacheAdvisory ==
    pc = "done" /\ PastHeader =>
        IF tenant_id \notin tenant_table THEN response = InvalidTenant
        ELSE IF tenant_id \notin user_tenants[request.user] THEN response = AccessDenied
        ELSE response # InvalidTenant

\* no cache or store lookup, oracle probe or upstream POST has run from the given
\* step on: 1 tenant existence, 2 membership, 3 rewrite, 4 forward
NothingRanFrom(step) ==
    /\ step <= 1 => cache_value = PyNone
    /\ step <= 2 => cache_value.t # "list"
    /\ step <= 3 => operations = <<>> /\ oracle_calls = <<>>
    /\ posted = <<>>

\* C13: a finished request of a resolved user that fails a check has the response of
\* the first check it fails, in the order JSON body, tenant header, tenant
\* existence, membership, rewrite, and nothing after that check has run.
C13_ChecksInOrder ==
    pc = "done" /\ request.user # "" =>
        IF ~request.body.json_ok
        THEN response = [status_code |-> 400, content |-> PyStr("Invalid JSON")]
             /\ NothingRanFrom(1)
        ELSE IF ~Truthy(request.header) \/ request.header = PyStr("null")
        THEN response = [status_code |-> 400, content |-> Error("Please provide tenant ID")]
             /\ NothingRanFrom(1)
        ELSE IF request.header.s \notin tenant_table
        THEN response = InvalidTenant /\ NothingRanFrom(2)
        ELSE IF request.header.s \notin user_tenants[request.user]
        THEN response = AccessDenied /\ NothingRanFrom(3)
        ELSE ~perform_operations /\ response.status_code # 500
                 => response = AccessDenied /\ NothingRanFrom(4)

\* a row has the token, is active and has no token_expiry or a later one; with
\* or_now, a token_expiry equal to the present instant counts as well
TokenOfLiveUser(token, user, or_now) ==
    /\ user \in DOMAIN user_table
    /\ user_table[user].token = token
    /\ user_table[user].is_active
    /\ \/ user_table[user].token_expiry = PyNone
       \/ user_table[user].token_expiry.i > now
       \/ or_now /\ user_table[user].token_expiry.i = now

\* what a request that token validation lets through or ends looks like
ResolvesExactly(or_now) ==
    pc = "idle" /\ pc' # "idle" =>
        /\ request'.user # "" <=> \E u \in Users : TokenOfLiveUser(request'.token, u, or_now)
        /\ request'.user # "" =>
               pc' = "parse" /\ TokenOfLiveUser(request'.token, request'.user, or_now)
        /\ request'.user = "" => pc' = "done" /\ response'.status_code = 401

\* C14, as amended: a request gets past token validation, and the handler starts with
\* the user of the token, exactly when a row has the presented token, is active and
\* has no token_expiry or one that is not before the present instant; every other
\* request ends with 401.
C14_TokenResolution == [][ResolvesExactly(TRUE)]_vars

\* C14, as stated: the same with a token_expiry strictly in the future.
C14_TokenResolutionStrict == [][ResolvesExactly(FALSE)]_vars

\* the token of user 4 is presented at the very instant of its token_expiry, and the
\* handler runs
C14_Witness ==
    /\ pc = "parse"
    /\ request.token = "tok4"
    /\ request.user = "4"
    /\ now = 1
    /\ user_table["4"].token_expiry = PyInt(1)

\* C15: when the POST of the client's batch to the upstream fails in transport (no
\* response comes), the client is answered 502.
C15_TransportFailureIs502 ==
    pc = "done" /\ posted # <<>> /\ upstream = NoUpstream => response.status_code = 502

\* C16: a password verifies against its own hash and no other password does, whatever
\* the salt and the iteration count; the hash splits on "$" into exactly 4 parts; a
\* stored string with another number of parts verifies as false and does not raise.
C16_PasswordRoundTrip ==
    /\ reply.endpoint = "password_hash" =>
           reply.hashed.status = "found" /\ Len(Split(reply.hashed.value, "$")) = 4
    /\ reply.endpoint = "password_verify" =>
           reply.result = Hit(reply.candidate = reply.password)
    /\ reply.endpoint = "password_verify_stored" => reply.result = Hit(FALSE)

\* another password was tried against the hash of "pa$s" and did not verify
C16_Witness ==
    /\ reply.endpoint = "password_verify"
    /\ reply.password = "pa$s"
    /\ reply.candidate = "secret"
    /\ reply.result = Hit(FALSE)

\* the row of that username exists and the password verifies against its hash
GoodCredentials(username, password, user) ==
    /\ user \in DOMAIN user_table
    /\ user_table[user].username = username
    /\ password_verify(password, user_table[user].password, "ab") = Hit(TRUE)

\* C17: a login answers with the user's token and success=true exactly when the
\* username exists and the password verifies against that user's hash; every other
\* login, wrong password or unknown username alike, gets the one response 200,
\* token "", success false.
C17_LoginFailuresAlike ==
    reply.endpoint = "login" =>
        IF \E u \in Users : GoodCredentials(reply.username, reply.password, u)
        THEN \E u \in Users :
                 /\ GoodCredentials(reply.username, reply.password, u)
                 /\ reply.response = LoginResponse(user_table[u].token, TRUE)
        ELSE reply.response = LoginResponse("", FALSE)

\* a wrong password for the existing user alice
C17_Witness ==
    /\ reply.endpoint = "login"
    /\ reply.username = "alice"
    /\ reply.password = "pa$s"
    /\ user_table["1"].password = StoredUsers["1"].password
    /\ reply.response = LoginResponse("", FALSE)

\* C19: after a PATCH /user/{id} whose body holds only a password, the stored
\* password is a hash that verifies against that password, and token, username,
\* is_active, token_expiry and scopes of the row are what they were.
C19_PasswordPatchFrame ==
    reply.endpoint = "update_user" /\ reply.status_code = 200
        /\ DOMAIN reply.body = {"password"} =>
        /\ password_verify(reply.body.password, reply.after.password, "ab") = Hit(TRUE)
        /\ \A f \in {"token", "username", "is_active", "token_expiry", "scopes"} :
               reply.after[f] = reply.before[f]

(***************************************************************************)
(* write_run_logs                                                          *)
(***************************************************************************)
\* the flow_run_id values of a list of logs bound in the variables mapping
BoundLogIds(logs) ==
    IF logs.t # "list" THEN {}
    ELSE {GetItem(logs.elems[k], "flow_run_id") :
             k \in {l \in 1..Len(logs.elems) :
                       logs.elems[l].t = "dict" /\ HasKey(logs.elems[l], "flow_run_id")}}

\* the flow_run_id values of an inline list of log objects
InlineLogIds(list) ==
    UNION {{PyStr(list.values[k].fields[f].value.value) :
               f \in {g \in 1..Len(list.values[k].fields) :
                         /\ list.values[k].fields[g].name = "flow_run_id"
                         /\ list.values[k].fields[g].value.kind = "StringValue"}} :
           k \in {l \in 1..Len(list.values) : list.values[l].kind = "ObjectValue"}}

\* every flow_run_id that appears in input.logs of the selection, inline or bound
LoggedFlowRuns(selection, variables) ==
    LET bound(name) ==
            IF variables.t = "dict" /\ HasKey(variables, name)
            THEN GetItem(variables, name) ELSE PyNone
        of_logs(value) ==
            CASE value.kind = "ListValue" -> InlineLogIds(value)
              [] value.kind = "Variable" -> BoundLogIds(bound(value.name))
              [] OTHER -> {}
        of_bound_input(input) ==
            IF input.t = "dict" /\ HasKey(input, "logs")
            THEN BoundLogIds(GetItem(input, "logs")) ELSE {}
        of_input(value) ==
            CASE value.kind = "ObjectValue" ->
                     UNION {of_logs(value.fields[f].value) :
                               f \in {g \in 1..Len(value.fields) :
                                         value.fields[g].name = "logs"}}
              [] value.kind = "Variable" -> of_bound_input(bound(value.name))
              [] OTHER -> {}
    IN UNION {of_input(selection.arguments[a].value) :
                 a \in {b \in 1..Len(selection.arguments) :
                           selection.arguments[b].name = "input"}}

\* C18: a write_run_logs mutation reaches the upstream only when every flow_run_id
\* of its input.logs, given inline or through the variables mapping, passed the
\* ownership oracle for the header tenant: the oracle was asked about that flow run
\* at that selection and answered true.
C18_WriteRunLogsEveryFlowRun ==
    \A f \in Forwarded :
        \A m \in SelectionsOf(f.operation, "mutation") :
            m.selection.name = "write_run_logs" =>
                \A id \in LoggedFlowRuns(m.selection, f.operation.variables) :
                    \E c \in 1..Len(oracle_calls) :
                        /\ oracle_calls[c].at = [i |-> f.i, d |-> m.d, s |-> m.s]
                        /\ oracle_calls[c].entity = PyStr("flow_run")
                        /\ oracle_calls[c].id = id
                        /\ oracle_calls[c].tenant_id = tenant_id
                        /\ oracle_calls[c].ret = PyBool(TRUE)

\* a write_run_logs mutation with a log of a flow run of another tenant was forwarded
C18_ForeignLogForwarded ==
    \E f \in Forwarded :
        \E m \in SelectionsOf(f.operation, "mutation") :
            /\ m.selection.name = "write_run_logs"
            /\ PyStr("r2") \in LoggedFlowRuns(m.selection, f.operation.variables)
            /\ tenant_id = "t1"

(***************************************************************************)
(* Batches                                                                 *)
(***************************************************************************)
\* what identifies an operation through the rewrite: its definitions, their types
\* and the names of their top-level selections
Outline(operation) ==
    IF ~operation.has_query THEN <<>>
    ELSE [d \in 1..Len(operation.query.definitions) |->
             IF operation.query.definitions[d].kind # "OperationDefinition"
             THEN <<operation.query.definitions[d].kind>>
             ELSE <<operation.query.definitions[d].operation,
                    [j \in 1..Len(operation.query.definitions[d].selections) |->
                        operation.query.definitions[d].selections[j].name]>>]

\* the operations of batch are those of the request, one for one and in its order
InRequestOrder(batch) ==
    /\ Len(batch) = Len(request.body.operations)
    /\ \A i \in 1..Len(batch) : Outline(batch[i]) = Outline(request.body.operations[i])

\* C20: the operations of a request are rewritten in request order; what is POSTed
\* upstream has the length and the order of the request's operations, as a list
\* for a batch and as one object for a single operation; the response keeps every
\* element of the upstream's answer at its position, and an element whose operation
\* is not a tenant query is returned as the upstream gave it.
C20_BatchOrderPreserved ==
    /\ pc = "modify" =>
          /\ Len(modified_operations) = pos.i - 1
          /\ InRequestOrder(modified_operations
                            \o SubSeq(request.body.operations, pos.i,
                                      Len(request.body.operations)))
    /\ \A k \in 1..Len(posted) :
          /\ posted[k].is_list = request.body.is_list
          /\ ~posted[k].is_list => Len(posted[k].operations) = 1
          /\ InRequestOrder(posted[k].operations)
    /\ (pc = "done" /\ posted # <<>> /\ response.content.t = "body") =>
          /\ response.content.is_list = upstream.is_list
          /\ Len(response.content.elems) = Len(upstream.elems)
          /\ \A i \in 1..Len(upstream.elems) :
                /\ response.content.elems[i].rest = upstream.elems[i].rest
                /\ response.content.elems[i].has_tenant = upstream.elems[i].has_tenant
                /\ ~is_tenant_query(request.body.operations[i]) =>
                      response.content.elems[i] = upstream.elems[i]

\* a batch of a tenant query and another operation was answered: the first element
\* came back filtered, the second as the upstream gave it although it has tenant rows
C20_Witness ==
    /\ pc = "done"
    /\ request.body.is_list
    /\ Len(posted) = 1
    /\ posted[1].is_list
    /\ Len(posted[1].operations) = 2
    /\ is_tenant_query(request.body.operations[1])
    /\ ~is_tenant_query(request.body.operations[2])
    /\ response.status_code = 200
    /\ response.content.t = "body"
    /\ upstream.elems[1].tenant = <<Row("t3", "c"), Row("t2", "b"), Row("t1", "a")>>
    /\ response.content.elems[1].tenant = <<Row("t2", "b"), Row("t1", "a")>>
    /\ upstream.elems[2].tenant = <<Row("t3", "c"), Row("t2", "b"), Row("t1", "a")>>
    /\ response.content.elems[2] = upstream.elems[2]

(***************************************************************************)
(* Identifiers checked and identifiers carried                             *)
(***************************************************************************)
\* the action of a mutation selection: the first word of its name
ActionOf(selection_name) == Split(selection_name, "_")[1]

\* the values the selection carries for the entity: under an argument named id or
\* {entity}_id, or under such a field of its input or where, inline or bound
CarriedIds(entity, selection, variables) ==
    LET names == {"id", Format(entity) \o "_id"}
        bound(name) ==
            IF variables.t = "dict" /\ HasKey(variables, name)
            THEN GetItem(variables, name) ELSE PyNone
        resolve(node) ==
            CASE node.kind = "StringValue" -> {PyStr(node.value)}
              [] node.kind = "Variable" -> {bound(node.name)} \ {PyNone}
              [] OTHER -> {}
        unwrap(v) == IF v.t = "dict" /\ HasKey(v, "_eq") THEN GetItem(v, "_eq") ELSE v
        of_fields(fields) ==
            UNION {resolve(fields[k].value) :
                      k \in {l \in 1..Len(fields) : fields[l].name \in names}}
        of_bound(v) ==
            IF v.t # "dict" THEN {}
            ELSE {unwrap(v.items[k].val) :
                     k \in {l \in 1..Len(v.items) : v.items[l].key \in names}}
        of_arg(arg) ==
            IF arg.name \in names THEN resolve(arg.value)
            ELSE IF arg.name \notin {"input", "where"} THEN {}
            ELSE CASE arg.value.kind = "ObjectValue" -> of_fields(arg.value.fields)
                   [] arg.value.kind = "Variable" -> of_bound(bound(arg.value.name))
                   [] OTHER -> {}
    IN UNION {of_arg(selection.arguments[a]) : a \in 1..Len(selection.arguments)}

\* the selections whose one identifier is authorized: *_by_pk queries and the
\* delete, set and update mutations that take no list of states
SingleIdSelections(operation) ==
    {q \in SelectionsOf(operation, "query") : EndsWith(q.selection.name, "_by_pk")}
    \cup {m \in SelectionsOf(operation, "mutation") :
             /\ ActionOf(m.selection.name) \in {"delete", "set", "update"}
             /\ ~EndsWith(m.selection.name, "states")}

\* C21: for every forwarded *_by_pk query and delete, set or update mutation, each
\* id the Belonging Oracle was asked about at that selection is an id the forwarded
\* selection carries for that entity in its own arguments (as id or {entity}_id,
\* inline or through a variable it references).
C21_CheckedIdIsCarried ==
    \A f \in Forwarded :
        \A x \in SingleIdSelections(f.operation) :
            \A c \in 1..Len(oracle_calls) :
                oracle_calls[c].at = [i |-> f.i, d |-> x.d, s |-> x.s] =>
                    oracle_calls[c].id \in
                        CarriedIds(oracle_calls[c].entity, x.selection,
                                   f.operation.variables)

\* flow_by_pk(id: "f2") went upstream after the oracle was asked about flow f1
C21_OtherIdForwarded ==
    \E f \in Forwarded :
        \E x \in SingleIdSelections(f.operation) :
            /\ x.selection.name = "flow_by_pk"
            /\ CarriedIds(PyStr("flow"), x.selection, f.operation.variables) = {PyStr("f2")}
            /\ \A c \in 1..Len(oracle_calls) : oracle_calls[c].id = PyStr("f1")
            /\ oracle_calls # <<>>

(***************************************************************************)
(* Fragments                                                               *)
(***************************************************************************)
\* the document has an executable operation
Executable(operation) ==
    /\ operation.has_query
    /\ \E d \in 1..Len(operation.query.definitions) :
          operation.query.definitions[d].kind = "OperationDefinition"

\* C22: a request with a document that has no executable operation (fragment
\* definitions only) is never forwarded; and stepping over a top-level fragment
\* definition changes neither the decision nor the document nor the oracle calls.
C22_FragmentOnlyDenied ==
    [][/\ posted' # <<>> => \A i \in 1..Len(request'.body.operations) :
                                Executable(request'.body.operations[i])
       /\ ModifySkipFragment =>
              UNCHANGED <<perform_operations, ast, operations, oracle_calls>>]_vars

\* a document of one fragment definition was POSTed upstream
C22_FragmentOnlyForwarded ==
    /\ posted # <<>>
    /\ \E i \in 1..Len(posted[1].operations) : ~Executable(posted[1].operations[i])
    /\ perform_operations

(***************************************************************************)
(* Lists of input objects                                                  *)
(***************************************************************************)
\* the entity named before _id
EntityBeforeId(name) == PyStr(Split(name, "_id")[1])

\* the (entity, id) pairs of the *_id fields of an inline object
InlinePairs(object, variables) ==
    IF object.kind # "ObjectValue" THEN {}
    ELSE UNION {
        CASE object.fields[f].value.kind = "StringValue" ->
                 {<<EntityBeforeId(object.fields[f].name),
                    PyStr(object.fields[f].value.value)>>}
          [] object.fields[f].value.kind = "Variable"
             /\ variables.t = "dict"
             /\ HasKey(variables, object.fields[f].value.name) ->
                 {<<EntityBeforeId(object.fields[f].name),
                    GetItem(variables, object.fields[f].value.name)>>}
          [] OTHER -> {} :
        f \in {g \in 1..Len(object.fields) : EndsWith(object.fields[g].name, "_id")}}

\* the (entity, id) pairs of the *_id keys of a bound object
BoundPairs(object) ==
    IF object.t # "dict" THEN {}
    ELSE {<<EntityBeforeId(object.items[k].key), object.items[k].val>> :
             k \in {l \in 1..Len(object.items) : EndsWith(object.items[l].key, "_id")}}

\* the pairs of every object of the list input.{list_name}, inline or bound
PairsOfInputList(list_name, selection, variables) ==
    LET bound(name) ==
            IF variables.t = "dict" /\ HasKey(variables, name)
            THEN GetItem(variables, name) ELSE PyNone
        of_bound_list(list) ==
            IF list.t # "list" THEN {}
            ELSE UNION {BoundPairs(list.elems[k]) : k \in 1..Len(list.elems)}
        of_list(value) ==
            CASE value.kind = "ListValue" ->
                     UNION {InlinePairs(value.values[k], variables) :
                               k \in 1..Len(value.values)}
              [] value.kind = "Variable" -> of_bound_list(bound(value.name))
              [] OTHER -> {}
        of_bound_input(input) ==
            IF input.t = "dict" /\ HasKey(input, list_name)
            THEN of_bound_list(GetItem(input, list_name)) ELSE {}
        of_input(value) ==
            CASE value.kind = "ObjectValue" ->
                     UNION {of_list(value.fields[f].value) :
                               f \in {g \in 1..Len(value.fields) :
                                         value.fields[g].name = list_name}}
              [] value.kind = "Variable" -> of_bound_input(bound(value.name))
              [] OTHER -> {}
    IN UNION {of_input(selection.arguments[a].value) :
                 a \in {b \in 1..Len(selection.arguments) :
                           selection.arguments[b].name = "input"}}

\* the oracle was asked about (entity, id) at the selection and answered true
Authorized(at, pair) ==
    \E c \in 1..Len(oracle_calls) :
        /\ oracle_calls[c].at = at
        /\ oracle_calls[c].entity = pair[1]
        /\ oracle_calls[c].id = pair[2]
        /\ oracle_calls[c].tenant_id = tenant_id
        /\ oracle_calls[c].ret = PyBool(TRUE)

\* the delete, set and update mutations whose name ends in states
StatesSelections(operation) ==
    {m \in SelectionsOf(operation, "mutation") :
        /\ ActionOf(m.selection.name) \in {"delete", "set", "update"}
        /\ EndsWith(m.selection.name, "states")}

\* C23: a delete, set or update mutation whose name ends in states is forwarded
\* only when every *_id field of every object of input.states, inline or through
\* the variables mapping, was authorized by the oracle as an (entity, id) pair for
\* the header tenant.
C23_EveryStateAuthorized ==
    \A f \in Forwarded :
        \A m \in StatesSelections(f.operation) :
            \A pair \in PairsOfInputList("states", m.selection, f.operation.variables) :
                Authorized([i |-> f.i, d |-> m.d, s |-> m.s], pair)

\* set_task_run_states for a task run of another tenant went upstream and the
\* oracle was not asked at all
C23_StateNeverAsked ==
    \E f \in Forwarded :
        \E m \in StatesSelections(f.operation) :
            /\ <<PyStr("task_run"), PyStr("tr2")>> \in
                   PairsOfInputList("states", m.selection, f.operation.variables)
            /\ oracle_calls = <<>>
            /\ tenant_id = "t1"

\* the pairs of the objects list and of the object argument of an insert
PairsOfInsert(selection, variables) ==
    LET bound(name) ==
            IF variables.t = "dict" /\ HasKey(variables, name)
            THEN GetItem(variables, name) ELSE PyNone
        of_bound_list(list) ==
            IF list.t # "list" THEN {}
            ELSE UNION {BoundPairs(list.elems[k]) : k \in 1..Len(list.elems)}
        of_objects(value) ==
            CASE value.kind = "ListValue" ->
                     UNION {InlinePairs(value.values[k], variables) :
                               k \in 1..Len(value.values)}
              [] value.kind = "Variable" -> of_bound_list(bound(value.name))
              [] OTHER -> {}
        of_object(value) ==
            CASE value.kind = "ObjectValue" -> InlinePairs(value, variables)
              [] value.kind = "Variable" -> BoundPairs(bound(value.name))
              [] OTHER -> {}
        of_arg(arg) ==
            CASE arg.name = "objects" -> of_objects(arg.value)
              [] arg.name = "object" -> of_object(arg.value)
              [] OTHER -> {}
    IN UNION {of_arg(selection.arguments[a]) : a \in 1..Len(selection.arguments)}

InsertSelections(operation) ==
    {m \in SelectionsOf(operation, "mutation") : ActionOf(m.selection.name) = "insert"}

\* C24: an insert mutation is forwarded only when every *_id field of every object
\* of its objects list, or of its object argument, given inline or through the
\* variables mapping, passed the oracle for (the entity named before _id, the id,
\* the header tenant).
C24_EveryInsertedIdAuthorized ==
    \A f \in Forwarded :
        \A m \in InsertSelections(f.operation) :
            \A pair \in PairsOfInsert(m.selection, f.operation.variables) :
                Authorized([i |-> f.i, d |-> m.d, s |-> m.s], pair)

\* an insert whose object is bound in the variables went upstream with the id of
\* a flow of another tenant and the oracle was not asked at all
C24_BoundObjectNeverAsked ==
    \E f \in Forwarded :
        \E m \in InsertSelections(f.operation) :
            /\ <<PyStr("flow"), PyStr("f2")>> \in
                   PairsOfInsert(m.selection, f.operation.variables)
            /\ oracle_calls = <<>>
            /\ tenant_id = "t1"

(***************************************************************************)
(* Mutations authorized through their input                                *)
(***************************************************************************)
\* the (canonical entity, id) pairs of the *_id fields of the input argument
PairsOfInput(selection, variables) ==
    LET bound(name) ==
            IF variables.t = "dict" /\ HasKey(variables, name)
            THEN GetItem(variables, name) ELSE PyNone
        of_input(value) ==
            CASE value.kind = "ObjectValue" -> InlinePairs(value, variables)
              [] value.kind = "Variable" -> BoundPairs(bound(value.name))
              [] OTHER -> {}
        raw == UNION {of_input(selection.arguments[a].value) :
                         a \in {b \in 1..Len(selection.arguments) :
                                   selection.arguments[b].name = "input"}}
    IN {<<map_entity_name(pair[1].s), pair[2]>> : pair \in raw}

InputSelections(operation) ==
    {m \in SelectionsOf(operation, "mutation") :
        /\ ActionOf(m.selection.name) \in
               {"archive", "cancel", "create", "disable", "enable", "get", "register"}
        /\ Split(m.selection.name, "get_or_create")[1] # ""}

\* C25: a mutation with action archive, cancel, create, disable, enable, get or
\* register is forwarded only when, if its input names a tenant id, that id is the
\* header tenant, and otherwise every id of its input passed the oracle for its
\* canonical entity.
C25_InputIdsAuthorized ==
    \A f \in Forwarded :
        \A m \in InputSelections(f.operation) :
            LET pairs == PairsOfInput(m.selection, f.operation.variables)
                tenants == {pair \in pairs : pair[1] = PyStr("tenant")}
            IN IF tenants # {}
               THEN \A pair \in tenants : pair[2] = PyStr(tenant_id)
               ELSE \A pair \in pairs :
                        Authorized([i |-> f.i, d |-> m.d, s |-> m.s], pair)

\* create_flow_run for a flow of another tenant went upstream
C25_ForeignInputForwarded ==
    \E f \in Forwarded :
        \E m \in InputSelections(f.operation) :
            /\ <<PyStr("flow"), PyStr("f2")>> \in
                   PairsOfInput(m.selection, f.operation.variables)
            /\ tenant_id = "t1"

(***************************************************************************)
(* Entities outside the canonicalization table                             *)
(***************************************************************************)
\* the canonical entity of a delete, set or update mutation
EntityOf(selection_name) ==
    map_entity_name(split_operation_entity_mode(selection_name).entity)

\* C26: an entity name whose prefix is not in the canonicalization table maps to
\* None, and no forwarded mutation was authorized on such an entity: neither a
\* delete, set or update (names ending in states included) whose entity maps to
\* None, nor an input-based mutation with an id whose entity maps to None.
C26_UnknownEntityDenied ==
    /\ map_entity_name("widget") = PyNone
    /\ \A f \in Forwarded :
          \A m \in SelectionsOf(f.operation, "mutation") :
              /\ ActionOf(m.selection.name) \in {"delete", "set", "update"} =>
                     EntityOf(m.selection.name) # PyNone
              /\ m \in InputSelections(f.operation) =>
                     \A pair \in PairsOfInput(m.selection, f.operation.variables) :
                         pair[1] # PyNone

\* a mutation on widget went upstream
C26_UnknownEntityForwarded ==
    \E f \in Forwarded :
        \E m \in SelectionsOf(f.operation, "mutation") :
            m.selection.name \in {"delete_widget", "create_widget", "set_widget_states"}

(***************************************************************************)
(* Tenant queries                                                          *)
(***************************************************************************)
\* how many times the field id is in the selection set
RECURSIVE IdCount(_)
IdCount(selections) ==
    IF Len(selections) = 0 THEN 0
    ELSE (IF Head(selections) = "id" THEN 1 ELSE 0) + IdCount(Tail(selections))

\* the forwarded query selections whose name starts with tenant, each with the
\* selection the client sent at the same place
TenantSelections ==
    UNION {{[out |-> q.selection,
             in |-> request.body.operations[f.i].query.definitions[q.d].selections[q.s]] :
               q \in {x \in SelectionsOf(f.operation, "query") :
                         TenantShapedQuery(x.selection.name)}} :
           f \in Forwarded}

\* no where clause is injected; id is appended when the client did not select it
\* and the selection set is left unchanged when it did; the outbound selection set
\* has id, and has it once when exactly holds
TenantIdEnsured(exactly) ==
    \A t \in TenantSelections :
        /\ t.out.arguments = t.in.arguments
        /\ IdCount(t.out.selection_set[1]) >= 1
        /\ exactly => IdCount(t.out.selection_set[1]) = 1
        /\ IF IdCount(t.in.selection_set[1]) = 0
           THEN t.out.selection_set[1] = Append(t.in.selection_set[1], "id")
           ELSE t.out.selection_set = t.in.selection_set

IdentifierSelections(operation) ==
    {m \in SelectionsOf(operation, "mutation") :
        \/ ActionOf(m.selection.name) \in {"delete", "set", "update", "insert", "write"}
        \/ m \in InputSelections(operation)}

\* C29: every forwarded delete, set, update, insert, write or input-based mutation
\* had at least one identifier extracted that passed the oracle at that selection,
\* or, for an input-based mutation, names a tenant id equal to the header tenant.
C29_NoVacuousMutation ==
    \A f \in Forwarded :
        \A m \in IdentifierSelections(f.operation) :
            \/ \E c \in 1..Len(oracle_calls) :
                  /\ oracle_calls[c].at = [i |-> f.i, d |-> m.d, s |-> m.s]
                  /\ oracle_calls[c].ret = PyBool(TRUE)
            \/ /\ m \in InputSelections(f.operation)
               /\ <<PyStr("tenant"), PyStr(tenant_id)>> \in
                      PairsOfInput(m.selection, f.operation.variables)

\* a mutation without arguments went upstream and the oracle was not asked
C29_NothingExtracted ==
    \E f \in Forwarded :
        \E m \in IdentifierSelections(f.operation) :
            /\ m.selection.arguments = <<>>
            /\ oracle_calls = <<>>

(***************************************************************************)
(* Membership changes next to proxy requests                               *)
(***************************************************************************)
\* the entry user_tenants_{u} is absent or holds the membership of u in the store
CacheAgrees(u) ==
    \A e \in redis :
        e[1] = "user_tenants_" \o u => e[2] = list_to_string(TenantsOf(user_tenants[u]))

\* no proxy request is between its read of the membership and its write of the cache
NoneInFlight == pc \notin {"user_tenants_all", "user_tenants_set"}

\* C28: under any interleaving of proxy requests that miss user_tenants_{u} with
\* add_user_tenant and remove_user_tenant for the same user, once the requests have
\* finished the cache key is absent or holds the store's current membership (so no
\* removed tenant stays cached for later requests).
C28_NoStaleMembership == NoneInFlight => \A u \in Users : CacheAgrees(u)

\* tenant t1 was removed from user 1, the handler has answered, and the cache
\* still lists t1 for user 1
C28_RemovedTenantCached ==
    /\ reply = RouterReply("remove_user_tenant", "1", 200)
    /\ pc = "idle"
    /\ "t1" \notin user_tenants["1"]
    /\ \E e \in redis : e[1] = "user_tenants_1" /\ InList("t1", string_to_list(e[2]))

(***************************************************************************)
(* What a plain user can do to their own membership                        *)
(***************************************************************************)
\* the requests to the /user router that carry the token of user 2
RequestsOfUser2 ==
    \/ AddUserTenant({"tok2"}, {"me", "1", "2"}, {"t1", "t9"})
    \/ RemoveUserTenant({"tok2"}, {"me", "1", "2"}, {"t1", "t3"})
    \/ DeleteUser({"tok2"}, {"me", "1", "2"})
    \/ UpdateUser({"tok2"}, {"me", "1", "2"}, {[username |-> "eve"]})

\* C30: a request to the /user router made with the token of a user who is no
\* admin never adds a tenant to that user's membership: the tenants for which the
\* user's proxy requests pass the membership check afterwards are among those
\* before.
C30_NoSelfEnlargement ==
    [][(RequestsOfUser2 /\ ~user_table["2"].is_admin)
           => user_tenants'["2"] \subseteq user_tenants["2"]]_vars

\* user 2, no admin, asked for tenant t1 through the proxy and passed the
\* membership check after adding t1 to their own membership
C30_SelfAddedTenantAccepted ==
    /\ reply = RouterReply("add_user_tenant", "2", 200)
    /\ ~user_table["2"].is_admin
    /\ request.user = "2"
    /\ tenant_id = "t1"
    /\ InList("user_tenants", trail)

====
